---- MODULE Spec2Model ----
\* Model of the runtime metrics collector, backend/app/core/monitoring.py
\* (class MetricsCollector and the module-level helpers around it).
EXTENDS Integers, Sequences, FiniteSets, TLC

\* ------------------------------------------------------------------ bounds
\* MetricsCollector(window_size=...) is constructed with 1..MaxWindow
MaxWindow == 2
\* cap on the number of record_* calls counted by the collector at one time
MaxRecords == 3
\* number of concurrent callers in the threaded specification
NThreads == 2
\* samples fed to the collector of the statistics scenario
MaxSamples == 4

\* seconds the wall clock advances past construction
MaxUptime == 2

\* ------------------------------------------------------------- input sets
Endpoints == {"A", "B"}
ModelNames == {"M"}
Latencies == {100, 200}
StatusCodes == {200, 399, 400, 500}
Threads == 1..NThreads

\* get_system_metrics serves its cache for 5 seconds
RefreshInterval == 5
\* 1024**3
GiB == 1073741824
\* time.time() / datetime.now() at construction: a wall-clock reading, far
\* above the refresh interval
Epoch == 2 * RefreshInterval

VARIABLES
    window_size,            \* capacity of every rolling window
    endpoint_latencies,     \* defaultdict: endpoint -> deque(maxlen=window_size)
    model_inference_times,  \* defaultdict: model -> deque(maxlen=window_size)
    request_counts,         \* defaultdict(int)
    error_counts,           \* defaultdict(int)
    model_call_counts,      \* defaultdict(int)
    start_time,
    last_reset,
    system_metrics_cache,   \* _system_metrics_cache
    last_system_check,      \* _last_system_check
    now,                    \* the wall clock
    ret,                    \* what the last completed call returned
    pc,                     \* per caller thread: position inside its call
    call,                   \* per caller thread: the call it makes
    tmp,                    \* per caller thread: value read by "+= 1"
    ref,                    \* per caller thread: the deque it looked up
    locals,                 \* per caller thread: other local variables
    metrics_collector,      \* the module global _metrics_collector
    local_metrics,          \* per caller thread: its local `metrics`
    frame                   \* the wrapper invocation in progress

collector == <<window_size, endpoint_latencies, model_inference_times, request_counts,
               error_counts, model_call_counts>>
clocks == <<start_time, last_reset, now>>
sampler == <<system_metrics_cache, last_system_check>>
callers == <<pc, call, tmp, ref, locals>>
wrappers == <<metrics_collector, local_metrics, frame>>
vars == <<window_size, endpoint_latencies, model_inference_times, request_counts,
          error_counts, model_call_counts, start_time, last_reset,
          system_metrics_cache, last_system_check, now, ret,
          pc, call, tmp, ref, locals, metrics_collector, local_metrics, frame>>

\* ------------------------------------------------------------ dictionaries
\* A dict is a function whose DOMAIN is the set of keys present.
EmptyDict == [k \in {} |-> 0]

\* defaultdict.__getitem__: a missing key is inserted with the default
Touch(d, k, dflt) ==
    [x \in (DOMAIN d) \cup {k} |-> IF x \in DOMAIN d THEN d[x] ELSE dflt]

\* d[k] = v
Store(d, k, v) ==
    [x \in (DOMAIN d) \cup {k} |-> IF x = k THEN v ELSE d[x]]

RECURSIVE SumSeq(_)
SumSeq(s) == IF s = <<>> THEN 0 ELSE Head(s) + SumSeq(Tail(s))

RECURSIVE SumValues(_)
\* sum(d.values())
SumValues(d) ==
    IF DOMAIN d = {} THEN 0
    ELSE LET k == CHOOSE x \in DOMAIN d : TRUE
         IN d[k] + SumValues([x \in (DOMAIN d) \ {k} |-> d[x]])

\* a window that is never trimmed
Push_unbounded(w, x) == Append(w, x)

\* a full window that refuses the new sample instead of dropping the oldest
Push_keep_oldest(w, x) ==
    IF Len(w) >= window_size THEN w ELSE Append(w, x)

\* deque(maxlen=window_size).append: a full deque drops its oldest element
Push(w, x) ==
    IF Len(w) >= window_size THEN Tail(w) \o <<x>> ELSE Append(w, x)

\* an error test that misses the boundary
IsError_above_400(status_code) == status_code > 400

\* status_code >= 400
IsError(status_code) == status_code >= 400

\* d[k] += 1 on a defaultdict(int)
Increment(d, k) == [Touch(d, k, 0) EXCEPT ![k] = @ + 1]

\* ---------------------------------------------------------- call results
\* The value of the last completed call: what it returned, or what it raised.
\* `call` and `arg` name the call, `raised` is "" when it returned.
None == [call |-> "none", arg |-> "", raised |-> "", value |-> <<>>]
Returned(c, a, v) == [call |-> c, arg |-> a, raised |-> "", value |-> v]
Raised(c, a, e) == [call |-> c, arg |-> a, raised |-> e, value |-> <<>>]

\* ------------------------------------------------------------- arithmetic
RECURSIVE GCD(_, _)
GCD(a, b) == IF b = 0 THEN a ELSE GCD(b, a % b)

\* a / b of two non-negative numbers, b > 0, kept exact as a reduced
\* fraction <<numerator, denominator>>
Div(a, b) == LET g == GCD(a, b) IN <<a \div g, b \div g>>
Zero == <<0, 1>>
LessEq(x, y) == x[1] * y[2] <= y[1] * x[2]

RECURSIVE Insert(_, _)
Insert(s, x) ==
    IF s = <<>> THEN <<x>>
    ELSE IF x < Head(s) THEN <<x>> \o s
    ELSE <<Head(s)>> \o Insert(Tail(s), x)

\* the list left in insertion order
sorted_not(s) == s

RECURSIVE sorted(_)
\* sorted(latencies): ascending
sorted(s) == IF s = <<>> THEN <<>> ELSE Insert(sorted(Tail(s)), Head(s))

\* the rank rounded up instead of truncated
PercentileIndex_ceil(count, pct) == (count * pct + 99) \div 100

\* int(count * 0.5), int(count * 0.95), int(count * 0.99): the product of
\* the double nearest pct/100 and count, truncated; it equals
\* floor(count * pct / 100) for every count up to 200000.
PercentileIndex(count, pct) == (count * pct) \div 100

\* s[i] on a Python list: a negative index counts from the end, an index
\* outside -len..len-1 raises IndexError
InRange(s, i) == i >= -Len(s) /\ i < Len(s)
Item(s, i) == IF i >= 0 THEN s[i + 1] ELSE s[Len(s) + i + 1]


\* a caller thread that has not chosen its call yet
NoCall == [op |-> "none", key |-> "", sample |-> 0, status_code |-> 0]

\* no wrapper invocation in progress.  A frame holds the locals of a
\* wrapper (start_time, status_code), what the wrapped function did (calls:
\* how often it was called, outcome: "return" or the exception it raised,
\* result), the exception raised by the recording step (fault), and the
\* counters of the wrapper's key when the wrapper was entered.
NoFrame ==
    [pc |-> "idle", wrapper |-> "none", mode |-> "", name |-> "",
     start_time |-> 0, status_code |-> 0, calls |-> 0, outcome |-> "",
     result |-> "", fault |-> "", before |-> 0, errors_before |-> 0,
     method |-> "", path |-> "", held |-> 0]

\* the locals of a thread that is not inside a get_* call
NoLocals ==
    [current_time |-> 0, metrics |-> <<>>, size |-> 0, pos |-> 0,
     endpoint |-> "", latencies |-> <<>>, total |-> 0, error_count |-> 0,
     errors |-> 0, error_rate |-> <<0, 1>>, all_endpoints |-> <<>>,
     all_models |-> <<>>, total_requests |-> 0]

\* records counted by the collector (the cap of the model)
TotalRecorded == SumValues(request_counts) + SumValues(model_call_counts)

\* ---------------------------------------------------------- construction
\* MetricsCollector(window_size=size), in a module whose global
\* _metrics_collector is still None (0) and where no wrapper is running
Construct(size) ==
    /\ window_size = size
    /\ endpoint_latencies = EmptyDict
    /\ model_inference_times = EmptyDict
    /\ request_counts = EmptyDict
    /\ error_counts = EmptyDict
    /\ model_call_counts = EmptyDict
    /\ now = Epoch
    /\ start_time = Epoch
    /\ last_reset = Epoch
    /\ system_metrics_cache = EmptyDict
    /\ last_system_check = 0
    /\ ret = None
    /\ pc = [t \in Threads |-> "idle"]
    /\ call = [t \in Threads |-> NoCall]
    /\ tmp = [t \in Threads |-> 0]
    /\ ref = [t \in Threads |-> "none"]
    /\ locals = [t \in Threads |-> NoLocals]
    /\ metrics_collector = 0
    /\ local_metrics = [t \in Threads |-> 0]
    /\ frame = NoFrame

Init == \E size \in 1..MaxWindow : Construct(size)

\* ------------------------------------------------------------- operations
\* the request counter moved into the else branch of the error test
record_request_else(endpoint, latency_ms, status_code) ==
    /\ endpoint_latencies' =
         [Touch(endpoint_latencies, endpoint, <<>>)
            EXCEPT ![endpoint] = Push(@, latency_ms)]
    /\ request_counts' = IF IsError(status_code)
                         THEN Touch(request_counts, endpoint, 0)
                         ELSE Increment(request_counts, endpoint)
    /\ error_counts' = IF IsError(status_code)
                       THEN Increment(error_counts, endpoint)
                       ELSE error_counts
    /\ ret' = None
    /\ UNCHANGED <<window_size, model_inference_times, model_call_counts>>
    /\ UNCHANGED <<clocks, sampler, callers>>
    /\ UNCHANGED wrappers

record_request(endpoint, latency_ms, status_code) ==
    /\ endpoint_latencies' =
         [Touch(endpoint_latencies, endpoint, <<>>)
            EXCEPT ![endpoint] = Push(@, latency_ms)]
    /\ request_counts' = Increment(request_counts, endpoint)
    /\ error_counts' = IF IsError(status_code)
                       THEN Increment(error_counts, endpoint)
                       ELSE error_counts
    /\ ret' = None
    /\ UNCHANGED <<window_size, model_inference_times, model_call_counts>>
    /\ UNCHANGED <<clocks, sampler, callers>>
    /\ UNCHANGED wrappers

record_model_inference(model_name, inference_time_ms) ==
    /\ model_inference_times' =
         [Touch(model_inference_times, model_name, <<>>)
            EXCEPT ![model_name] = Push(@, inference_time_ms)]
    /\ model_call_counts' = Increment(model_call_counts, model_name)
    /\ ret' = None
    /\ UNCHANGED <<window_size, endpoint_latencies, request_counts, error_counts>>
    /\ UNCHANGED <<clocks, sampler, callers>>
    /\ UNCHANGED wrappers

\* a reset that forgets to clear the error counters
reset_metrics_keeps_errors ==
    /\ endpoint_latencies' = EmptyDict
    /\ model_inference_times' = EmptyDict
    /\ request_counts' = EmptyDict
    /\ error_counts' = error_counts
    /\ model_call_counts' = EmptyDict
    /\ last_reset' = now
    /\ ret' = None
    /\ UNCHANGED <<window_size, start_time, now, sampler, callers>>
    /\ UNCHANGED wrappers

\* a reset that also restarts the uptime clock
reset_metrics_restarts_uptime ==
    /\ endpoint_latencies' = EmptyDict
    /\ model_inference_times' = EmptyDict
    /\ request_counts' = EmptyDict
    /\ error_counts' = EmptyDict
    /\ model_call_counts' = EmptyDict
    /\ last_reset' = now
    /\ start_time' = now
    /\ ret' = None
    /\ UNCHANGED <<window_size, now, sampler, callers>>
    /\ UNCHANGED wrappers

reset_metrics ==
    /\ endpoint_latencies' = EmptyDict
    /\ model_inference_times' = EmptyDict
    /\ request_counts' = EmptyDict
    /\ error_counts' = EmptyDict
    /\ model_call_counts' = EmptyDict
    /\ last_reset' = now
    /\ ret' = None
    /\ UNCHANGED <<window_size, start_time, now, sampler, callers>>
    /\ UNCHANGED wrappers

\* total_requests taken from the window instead of the counter
EndpointStats_from_window(endpoint, latencies, requests, errors) ==
    LET sorted_latencies == sorted(latencies)
        count == Len(sorted_latencies)
    IN  [endpoint |-> endpoint,
         total_requests |-> count,
         error_count |-> errors,
         error_rate |-> IF count > 0 THEN Div(errors, count) ELSE Zero,
         latency_p50 |-> Item(sorted_latencies, PercentileIndex(count, 50)),
         latency_p95 |-> Item(sorted_latencies, PercentileIndex(count, 95)),
         latency_p99 |-> Item(sorted_latencies, PercentileIndex(count, 99)),
         avg_latency |-> Div(SumSeq(latencies), count)]

\* the statistics dict of get_endpoint_stats for a known window
\* `latencies`, given the counters it reads
EndpointStats(endpoint, latencies, requests, errors) ==
    LET sorted_latencies == sorted(latencies)
        count == Len(sorted_latencies)
    IN  [endpoint |-> endpoint,
         total_requests |-> requests,
         error_count |-> errors,
         error_rate |-> IF requests > 0 THEN Div(errors, requests) ELSE Zero,
         latency_p50 |-> Item(sorted_latencies, PercentileIndex(count, 50)),
         latency_p95 |-> Item(sorted_latencies, PercentileIndex(count, 95)),
         latency_p99 |-> Item(sorted_latencies, PercentileIndex(count, 99)),
         avg_latency |-> Div(SumSeq(latencies), count)]

EmptyEndpointStats(endpoint) ==
    [endpoint |-> endpoint, total_requests |-> 0, error_count |-> 0,
     error_rate |-> Zero, latency_p50 |-> 0, latency_p95 |-> 0,
     latency_p99 |-> 0, avg_latency |-> Zero]

\* sorted_latencies[int(count * p)] stays inside the list for all three p
EndpointIndexesOk(latencies) ==
    \A pct \in {50, 95, 99} :
        InRange(latencies, PercentileIndex(Len(latencies), pct))

\* the windows kept in a plain dict: an unknown key raises
EndpointStatsResult_KeyError(endpoint) ==
    IF endpoint \notin DOMAIN endpoint_latencies
    THEN Raised("get_endpoint_stats", endpoint, "KeyError")
    ELSE IF endpoint_latencies[endpoint] = <<>>
    THEN Returned("get_endpoint_stats", endpoint,
                  EmptyEndpointStats(endpoint))
    ELSE Returned("get_endpoint_stats", endpoint,
             EndpointStats(endpoint, endpoint_latencies[endpoint],
                 Touch(request_counts, endpoint, 0)[endpoint],
                 Touch(error_counts, endpoint, 0)[endpoint]))

\* what get_endpoint_stats(endpoint) returns or raises in the current state
EndpointStatsResult(endpoint) ==
    LET latencies == Touch(endpoint_latencies, endpoint, <<>>)[endpoint]
    IN  IF latencies = <<>>
        THEN Returned("get_endpoint_stats", endpoint,
                      EmptyEndpointStats(endpoint))
        ELSE IF ~EndpointIndexesOk(latencies)
        THEN Raised("get_endpoint_stats", endpoint, "IndexError")
        ELSE Returned("get_endpoint_stats", endpoint,
                 EndpointStats(endpoint, latencies,
                     Touch(request_counts, endpoint, 0)[endpoint],
                     Touch(error_counts, endpoint, 0)[endpoint]))

\* the keys that get_endpoint_stats(endpoint) reads in the counter tables
\* (and so inserts, the tables being defaultdicts)
CountersRead(endpoint) ==
    IF Touch(endpoint_latencies, endpoint, <<>>)[endpoint] = <<>>
    THEN {} ELSE {endpoint}

TouchAll(d, keys, dflt) ==
    [x \in (DOMAIN d) \cup keys |-> IF x \in DOMAIN d THEN d[x] ELSE dflt]

get_endpoint_stats(endpoint) ==
    /\ endpoint_latencies' = Touch(endpoint_latencies, endpoint, <<>>)
    /\ request_counts' = TouchAll(request_counts, CountersRead(endpoint), 0)
    /\ error_counts' = TouchAll(error_counts, CountersRead(endpoint), 0)
    /\ ret' = EndpointStatsResult(endpoint)
    /\ UNCHANGED <<window_size, model_inference_times, model_call_counts>>
    /\ UNCHANGED <<clocks, sampler, callers>>
    /\ UNCHANGED wrappers

ModelStats(model_name, inference_times, calls) ==
    LET sorted_times == sorted(inference_times)
        count == Len(sorted_times)
    IN  [model |-> model_name,
         total_calls |-> calls,
         avg_inference_ms |-> Div(SumSeq(inference_times), count),
         p95_inference_ms |-> Item(sorted_times, PercentileIndex(count, 95)),
         p99_inference_ms |-> Item(sorted_times, PercentileIndex(count, 99))]

EmptyModelStats(model_name) ==
    [model |-> model_name, total_calls |-> 0, avg_inference_ms |-> Zero,
     p95_inference_ms |-> 0, p99_inference_ms |-> 0]

ModelIndexesOk(inference_times) ==
    \A pct \in {95, 99} :
        InRange(inference_times, PercentileIndex(Len(inference_times), pct))

ModelStatsResult(model_name) ==
    LET inference_times == Touch(model_inference_times, model_name, <<>>)[model_name]
    IN  IF inference_times = <<>>
        THEN Returned("get_model_stats", model_name,
                      EmptyModelStats(model_name))
        ELSE IF ~ModelIndexesOk(inference_times)
        THEN Raised("get_model_stats", model_name, "IndexError")
        ELSE Returned("get_model_stats", model_name,
                 ModelStats(model_name, inference_times,
                     Touch(model_call_counts, model_name, 0)[model_name]))

ModelCountersRead(model_name) ==
    IF Touch(model_inference_times, model_name, <<>>)[model_name] = <<>>
    THEN {} ELSE {model_name}

get_model_stats(model_name) ==
    /\ model_inference_times' = Touch(model_inference_times, model_name, <<>>)
    /\ model_call_counts' =
         TouchAll(model_call_counts, ModelCountersRead(model_name), 0)
    /\ ret' = ModelStatsResult(model_name)
    /\ UNCHANGED <<window_size, endpoint_latencies, request_counts, error_counts>>
    /\ UNCHANGED <<clocks, sampler, callers>>
    /\ UNCHANGED wrappers

\* ---------------------------------------------------------- system sampler
\* what psutil reads from the host: cpu_percent, virtual_memory, disk_usage
IdleHost ==
    [cpu_percent |-> 10, memory_total |-> GiB, memory_used |-> GiB \div 2,
     memory_percent |-> 50, disk_total |-> GiB, disk_used |-> GiB \div 4,
     disk_percent |-> 25]
BusyHost ==
    [cpu_percent |-> 90, memory_total |-> GiB, memory_used |-> GiB,
     memory_percent |-> 100, disk_total |-> GiB, disk_used |-> GiB \div 4,
     disk_percent |-> 25]
OSReadings == {IdleHost, BusyHost}

\* torch.cuda: no accelerator, a working one, or one whose query raises
GpuOutcomes == {"absent", "present", "faulty"}

\* gpu_available assigned after the accelerator queries instead of before
FreshMetrics_flag_last(os, gpu) ==
    LET metrics ==
            [cpu_percent |-> os.cpu_percent,
             memory_total_gb |-> Div(os.memory_total, GiB),
             memory_used_gb |-> Div(os.memory_used, GiB),
             memory_percent |-> os.memory_percent,
             disk_total_gb |-> Div(os.disk_total, GiB),
             disk_used_gb |-> Div(os.disk_used, GiB),
             disk_percent |-> os.disk_percent]
    IN  CASE gpu = "present" ->
               metrics @@ [gpu_available |-> TRUE,
                           gpu_memory_allocated_gb |-> Div(0, GiB),
                           gpu_memory_reserved_gb |-> Div(0, GiB),
                           gpu_name |-> "cuda:0"]
          [] gpu = "faulty" -> metrics @@ [gpu_error |-> "error"]
          [] OTHER -> metrics @@ [gpu_available |-> FALSE]

\* the metrics dict built by a fresh sample
FreshMetrics(os, gpu) ==
    LET metrics ==
            [cpu_percent |-> os.cpu_percent,
             memory_total_gb |-> Div(os.memory_total, GiB),
             memory_used_gb |-> Div(os.memory_used, GiB),
             memory_percent |-> os.memory_percent,
             disk_total_gb |-> Div(os.disk_total, GiB),
             disk_used_gb |-> Div(os.disk_used, GiB),
             disk_percent |-> os.disk_percent]
    IN  CASE gpu = "present" ->
               metrics @@ [gpu_available |-> TRUE,
                           gpu_memory_allocated_gb |-> Div(0, GiB),
                           gpu_memory_reserved_gb |-> Div(0, GiB),
                           gpu_name |-> "cuda:0"]
          [] gpu = "faulty" ->
               metrics @@ [gpu_available |-> TRUE, gpu_error |-> "error"]
          [] OTHER -> metrics @@ [gpu_available |-> FALSE]

\* a cache still served when exactly the refresh interval has passed
CacheRecent_inclusive == now - last_system_check <= RefreshInterval

\* current_time - self._last_system_check < 5
CacheRecent == now - last_system_check < RefreshInterval

\* the dict get_system_metrics returns
SystemMetrics(os, gpu) ==
    IF CacheRecent THEN system_metrics_cache ELSE FreshMetrics(os, gpu)

\* the cache and its timestamp after get_system_metrics
RefreshCache(os, gpu) ==
    IF CacheRecent
    THEN UNCHANGED sampler
    ELSE /\ system_metrics_cache' = FreshMetrics(os, gpu)
         /\ last_system_check' = now

get_system_metrics(os, gpu) ==
    /\ RefreshCache(os, gpu)
    /\ ret' = Returned("get_system_metrics", "", SystemMetrics(os, gpu))
    /\ UNCHANGED <<collector, clocks, callers>>
    /\ UNCHANGED wrappers

\* ----------------------------------------------------------------- summary
\* _format_uptime: the pieces of the formatted string
format_uptime(seconds) ==
    LET days == seconds \div 86400
        hours == (seconds % 86400) \div 3600
        minutes == (seconds % 3600) \div 60
        secs == seconds % 60
    IN  IF days > 0 THEN <<days, "d ", hours, "h ", minutes, "m">>
        ELSE IF hours > 0 THEN <<hours, "h ", minutes, "m ", secs, "s">>
        ELSE <<minutes, "m ", secs, "s">>

\* keys whose window is not empty: get_*_stats reads their counters
NonEmptyKeys(windows) == {k \in DOMAIN windows : windows[k] # <<>>}

\* total_requests counted from the samples the windows still hold
Summary_from_windows(os, gpu) ==
    LET uptime == now - start_time
        all_endpoints ==
            [k \in DOMAIN endpoint_latencies |-> EndpointStatsResult(k).value]
        all_models ==
            [k \in DOMAIN model_inference_times |-> ModelStatsResult(k).value]
        total_requests ==
            SumValues([k \in DOMAIN endpoint_latencies |->
                          Len(endpoint_latencies[k])])
        total_errors == SumValues(error_counts)
    IN  [uptime_seconds |-> uptime,
         uptime_formatted |-> format_uptime(uptime),
         total_requests |-> total_requests,
         total_errors |-> total_errors,
         overall_error_rate |->
             IF total_requests > 0 THEN Div(total_errors, total_requests)
             ELSE Zero,
         requests_per_second |->
             IF uptime > 0 THEN Div(total_requests, uptime) ELSE Zero,
         endpoints |-> all_endpoints,
         models |-> all_models,
         system |-> SystemMetrics(os, gpu),
         timestamp |-> now]

\* the report of get_summary, computed after the per-key statistics have
\* read (and so inserted) their counters
Summary(os, gpu) ==
    LET uptime == now - start_time
        all_endpoints ==
            [k \in DOMAIN endpoint_latencies |-> EndpointStatsResult(k).value]
        all_models ==
            [k \in DOMAIN model_inference_times |-> ModelStatsResult(k).value]
        total_requests == SumValues(request_counts)
        total_errors == SumValues(error_counts)
    IN  [uptime_seconds |-> uptime,
         uptime_formatted |-> format_uptime(uptime),
         total_requests |-> total_requests,
         total_errors |-> total_errors,
         overall_error_rate |->
             IF total_requests > 0 THEN Div(total_errors, total_requests)
             ELSE Zero,
         requests_per_second |->
             IF uptime > 0 THEN Div(total_requests, uptime) ELSE Zero,
         endpoints |-> all_endpoints,
         models |-> all_models,
         system |-> SystemMetrics(os, gpu),
         timestamp |-> now]

\* a per-key statistics call inside get_summary raises
SummaryRaises ==
    \/ \E k \in DOMAIN endpoint_latencies : EndpointStatsResult(k).raised # ""
    \/ \E k \in DOMAIN model_inference_times : ModelStatsResult(k).raised # ""

\* requests_per_second divided without the test on uptime
get_summary_unguarded(os, gpu) ==
    /\ request_counts' =
         TouchAll(request_counts, NonEmptyKeys(endpoint_latencies), 0)
    /\ error_counts' =
         TouchAll(error_counts, NonEmptyKeys(endpoint_latencies), 0)
    /\ model_call_counts' =
         TouchAll(model_call_counts, NonEmptyKeys(model_inference_times), 0)
    /\ IF SummaryRaises
       THEN /\ ret' = Raised("get_summary", "", "IndexError")
            /\ UNCHANGED sampler
       ELSE IF now - start_time = 0
       THEN /\ ret' = Raised("get_summary", "", "ZeroDivisionError")
            /\ UNCHANGED sampler
       ELSE /\ ret' = Returned("get_summary", "", Summary(os, gpu))
            /\ RefreshCache(os, gpu)
    /\ UNCHANGED <<window_size, endpoint_latencies, model_inference_times>>
    /\ UNCHANGED <<clocks, callers>>
    /\ UNCHANGED wrappers

get_summary(os, gpu) ==
    /\ request_counts' =
         TouchAll(request_counts, NonEmptyKeys(endpoint_latencies), 0)
    /\ error_counts' =
         TouchAll(error_counts, NonEmptyKeys(endpoint_latencies), 0)
    /\ model_call_counts' =
         TouchAll(model_call_counts, NonEmptyKeys(model_inference_times), 0)
    /\ IF SummaryRaises
       THEN /\ ret' = Raised("get_summary", "", "IndexError")
            /\ UNCHANGED sampler
       ELSE /\ ret' = Returned("get_summary", "", Summary(os, gpu))
            /\ RefreshCache(os, gpu)
    /\ UNCHANGED <<window_size, endpoint_latencies, model_inference_times>>
    /\ UNCHANGED <<clocks, callers>>
    /\ UNCHANGED wrappers

\* ------------------------------------------- calls made one at a time
\* The collector's operations called one after the other, at one clock
\* reading, on an idle host without accelerator (what the sampler reads
\* does not bear on the windows and counters).
\* the model stops recording once MaxRecords records are counted
MayRecord == TotalRecorded < MaxRecords

Next ==
    \/ /\ MayRecord
       /\ \E e \in Endpoints, l \in Latencies, s \in StatusCodes :
             record_request(e, l, s)
    \/ /\ MayRecord
       /\ \E m \in ModelNames, l \in Latencies :
             record_model_inference(m, l)
    \/ \E e \in Endpoints : get_endpoint_stats(e)
    \/ \E m \in ModelNames : get_model_stats(m)
    \/ get_system_metrics(IdleHost, "absent")
    \/ get_summary(IdleHost, "absent")
    \/ reset_metrics

Spec == Init /\ [][Next]_vars

\* ------------------------------------ one endpoint and one model, no reset
\* A collector whose window is never full, fed with samples for endpoint
\* "A" and model "M" and asked for their statistics.
StatsLatencies == {100, 200, 300}
StatsStatusCodes == {200, 500}

MayRecordStats == TotalRecorded < MaxSamples

InitStats == Construct(MaxSamples)

NextStats ==
    \/ \E l \in StatsLatencies, s \in StatsStatusCodes :
           MayRecordStats /\ record_request("A", l, s)
    \/ \E l \in StatsLatencies :
           MayRecordStats /\ record_model_inference("M", l)
    \/ get_endpoint_stats("A")
    \/ get_model_stats("M")

SpecStats == InitStats /\ [][NextStats]_vars

\* ------------------------------------------------ calls while time passes
\* The collector called one call at a time while the wall clock advances:
\* datetime.now() in get_summary and reset_metrics reads later values than
\* the one stored in start_time at construction.
Tick ==
    /\ now - Epoch < MaxUptime
    /\ now' = now + 1
    /\ UNCHANGED <<collector, start_time, last_reset, sampler, ret, callers>>
    /\ UNCHANGED wrappers

InitClock == Construct(MaxWindow)

NextClock ==
    \/ Tick
    \/ /\ MayRecord
       /\ \E e \in Endpoints, s \in StatsStatusCodes :
             record_request(e, 100, s)
    \/ /\ MayRecord
       /\ \E m \in ModelNames : record_model_inference(m, 100)
    \/ \E e \in Endpoints : get_endpoint_stats(e)
    \/ get_summary(IdleHost, "absent")
    \/ reset_metrics

SpecClock == InitClock /\ [][NextClock]_vars

\* ------------------------------------------------------ the system sampler
\* get_system_metrics and get_summary called one at a time, on hosts of
\* every kind, while the wall clock runs past the refresh interval.
TickSampler ==
    /\ now - Epoch < RefreshInterval + MaxUptime
    /\ now' = now + 1
    /\ UNCHANGED <<collector, start_time, last_reset, sampler, ret, callers>>
    /\ UNCHANGED wrappers

InitSampler == Construct(MaxWindow)

NextSampler ==
    \/ TickSampler
    \/ \E os \in OSReadings, gpu \in GpuOutcomes : get_system_metrics(os, gpu)
    \/ \E os \in OSReadings, gpu \in GpuOutcomes : get_summary(os, gpu)

SpecSampler == InitSampler /\ [][NextSampler]_vars

\* ----------------------------------------------- a host that fails a read
\* psutil.cpu_percent, psutil.virtual_memory or psutil.disk_usage raises
\* (OSError, psutil.AccessDenied) during a fresh sample: the three reads
\* are outside any try block, so the exception leaves get_system_metrics
\* before the cache or its timestamp are assigned
get_system_metrics_raises ==
    /\ ~CacheRecent
    /\ ret' = Raised("get_system_metrics", "", "OSError")
    /\ UNCHANGED <<collector, clocks, sampler, callers>>
    /\ UNCHANGED wrappers

\* get_summary on such a host: the per-key statistics are computed, then
\* the call of get_system_metrics inside the returned dict raises
get_summary_raises ==
    /\ ~CacheRecent
    /\ request_counts' =
         TouchAll(request_counts, NonEmptyKeys(endpoint_latencies), 0)
    /\ error_counts' =
         TouchAll(error_counts, NonEmptyKeys(endpoint_latencies), 0)
    /\ model_call_counts' =
         TouchAll(model_call_counts, NonEmptyKeys(model_inference_times), 0)
    /\ ret' = IF SummaryRaises
              THEN Raised("get_summary", "", "IndexError")
              ELSE Raised("get_summary", "", "OSError")
    /\ UNCHANGED <<window_size, endpoint_latencies, model_inference_times>>
    /\ UNCHANGED <<clocks, sampler, callers>>
    /\ UNCHANGED wrappers

NextSamplerFault ==
    \/ NextSampler
    \/ get_system_metrics_raises
    \/ get_summary_raises

SpecSamplerFault == InitSampler /\ [][NextSamplerFault]_vars

\* ------------------------------------------------------ concurrent callers
\* Each caller thread makes one record_* call.  The interpreter switches
\* threads between bytecode instructions, so a call is a sequence of steps:
\*   self.endpoint_latencies[endpoint]   lookup; on a miss the default
\*                                       factory (a lambda) builds a deque
\*                                       and __missing__ then stores it
\*   .append(latency_ms)                 one step
\*   self.request_counts[endpoint] += 1  load, then store
\*   self.error_counts[endpoint] += 1    load, then store
\* ref[t] tells which deque the thread holds: "current" is the one in the
\* dict, "fresh" one it has built and not stored yet, "orphan" one that has
\* been replaced in the dict since the thread looked it up.
ConcCalls ==
    {[op |-> "record_request", key |-> e, sample |-> 100, status_code |-> s] :
        e \in Endpoints, s \in {200, 500}}
    \cup
    {[op |-> "record_model_inference", key |-> m, sample |-> 100,
      status_code |-> 0] : m \in ModelNames}

Goto(t, label) == pc' = [pc EXCEPT ![t] = label]

\* the deque of key k is replaced: every other holder of it is left with
\* an orphan
Orphaned(t, op, k) ==
    [u \in Threads |->
        IF u = t THEN "current"
        ELSE IF call[u].op = op /\ call[u].key = k /\ ref[u] = "current"
        THEN "orphan" ELSE ref[u]]

Start(t, c) ==
    /\ pc[t] = "idle"
    /\ call' = [call EXCEPT ![t] = c]
    /\ Goto(t, "lookup")
    /\ UNCHANGED <<collector, clocks, sampler, ret, tmp, ref>>
    /\ UNCHANGED wrappers
    /\ UNCHANGED locals

\* self.endpoint_latencies[endpoint]
rr_lookup(t) ==
    /\ pc[t] = "lookup" /\ call[t].op = "record_request"
    /\ IF call[t].key \in DOMAIN endpoint_latencies
       THEN ref' = [ref EXCEPT ![t] = "current"] /\ Goto(t, "append")
       ELSE ref' = [ref EXCEPT ![t] = "fresh"] /\ Goto(t, "missing")
    /\ UNCHANGED <<collector, clocks, sampler, ret, call, tmp>>
    /\ UNCHANGED wrappers
    /\ UNCHANGED locals

\* defaultdict.__missing__ stores the deque the factory returned
rr_missing(t) ==
    /\ pc[t] = "missing" /\ call[t].op = "record_request"
    /\ endpoint_latencies' = Store(endpoint_latencies, call[t].key, <<>>)
    /\ ref' = Orphaned(t, "record_request", call[t].key)
    /\ Goto(t, "append")
    /\ UNCHANGED <<window_size, model_inference_times, request_counts,
                   error_counts, model_call_counts>>
    /\ UNCHANGED <<clocks, sampler, ret, call, tmp>>
    /\ UNCHANGED wrappers
    /\ UNCHANGED locals

\* .append(latency_ms)
rr_append(t) ==
    /\ pc[t] = "append" /\ call[t].op = "record_request"
    /\ endpoint_latencies' =
         IF ref[t] = "current"
         THEN [endpoint_latencies EXCEPT
                  ![call[t].key] = Push(@, call[t].sample)]
         ELSE endpoint_latencies
    /\ Goto(t, "load_count")
    /\ UNCHANGED <<window_size, model_inference_times, request_counts,
                   error_counts, model_call_counts>>
    /\ UNCHANGED <<clocks, sampler, ret, call, tmp, ref>>
    /\ UNCHANGED wrappers
    /\ UNCHANGED locals

\* self.request_counts[endpoint] += 1, the load
rr_load_count(t) ==
    /\ pc[t] = "load_count" /\ call[t].op = "record_request"
    /\ request_counts' = Touch(request_counts, call[t].key, 0)
    /\ tmp' = [tmp EXCEPT ![t] = Touch(request_counts, call[t].key, 0)[call[t].key]]
    /\ Goto(t, "store_count")
    /\ UNCHANGED <<window_size, endpoint_latencies, model_inference_times,
                   error_counts, model_call_counts>>
    /\ UNCHANGED <<clocks, sampler, ret, call, ref>>
    /\ UNCHANGED wrappers
    /\ UNCHANGED locals

\* self.request_counts[endpoint] += 1, the store
rr_store_count(t) ==
    /\ pc[t] = "store_count" /\ call[t].op = "record_request"
    /\ request_counts' = Store(request_counts, call[t].key, tmp[t] + 1)
    /\ Goto(t, IF IsError(call[t].status_code) THEN "load_error" ELSE "done")
    /\ UNCHANGED <<window_size, endpoint_latencies, model_inference_times,
                   error_counts, model_call_counts>>
    /\ UNCHANGED <<clocks, sampler, ret, call, tmp, ref>>
    /\ UNCHANGED wrappers
    /\ UNCHANGED locals

\* self.error_counts[endpoint] += 1, the load
rr_load_error(t) ==
    /\ pc[t] = "load_error"
    /\ error_counts' = Touch(error_counts, call[t].key, 0)
    /\ tmp' = [tmp EXCEPT ![t] = Touch(error_counts, call[t].key, 0)[call[t].key]]
    /\ Goto(t, "store_error")
    /\ UNCHANGED <<window_size, endpoint_latencies, model_inference_times,
                   request_counts, model_call_counts>>
    /\ UNCHANGED <<clocks, sampler, ret, call, ref>>
    /\ UNCHANGED wrappers
    /\ UNCHANGED locals

\* self.error_counts[endpoint] += 1, the store
rr_store_error(t) ==
    /\ pc[t] = "store_error"
    /\ error_counts' = Store(error_counts, call[t].key, tmp[t] + 1)
    /\ Goto(t, "done")
    /\ UNCHANGED <<window_size, endpoint_latencies, model_inference_times,
                   request_counts, model_call_counts>>
    /\ UNCHANGED <<clocks, sampler, ret, call, tmp, ref>>
    /\ UNCHANGED wrappers
    /\ UNCHANGED locals

\* self.model_inference_times[model_name]
mi_lookup(t) ==
    /\ pc[t] = "lookup" /\ call[t].op = "record_model_inference"
    /\ IF call[t].key \in DOMAIN model_inference_times
       THEN ref' = [ref EXCEPT ![t] = "current"] /\ Goto(t, "append")
       ELSE ref' = [ref EXCEPT ![t] = "fresh"] /\ Goto(t, "missing")
    /\ UNCHANGED <<collector, clocks, sampler, ret, call, tmp>>
    /\ UNCHANGED wrappers
    /\ UNCHANGED locals

mi_missing(t) ==
    /\ pc[t] = "missing" /\ call[t].op = "record_model_inference"
    /\ model_inference_times' = Store(model_inference_times, call[t].key, <<>>)
    /\ ref' = Orphaned(t, "record_model_inference", call[t].key)
    /\ Goto(t, "append")
    /\ UNCHANGED <<window_size, endpoint_latencies, request_counts,
                   error_counts, model_call_counts>>
    /\ UNCHANGED <<clocks, sampler, ret, call, tmp>>
    /\ UNCHANGED wrappers
    /\ UNCHANGED locals

\* .append(inference_time_ms)
mi_append(t) ==
    /\ pc[t] = "append" /\ call[t].op = "record_model_inference"
    /\ model_inference_times' =
         IF ref[t] = "current"
         THEN [model_inference_times EXCEPT
                  ![call[t].key] = Push(@, call[t].sample)]
         ELSE model_inference_times
    /\ Goto(t, "load_count")
    /\ UNCHANGED <<window_size, endpoint_latencies, request_counts,
                   error_counts, model_call_counts>>
    /\ UNCHANGED <<clocks, sampler, ret, call, tmp, ref>>
    /\ UNCHANGED wrappers
    /\ UNCHANGED locals

\* self.model_call_counts[model_name] += 1, the load
mi_load_count(t) ==
    /\ pc[t] = "load_count" /\ call[t].op = "record_model_inference"
    /\ model_call_counts' = Touch(model_call_counts, call[t].key, 0)
    /\ tmp' = [tmp EXCEPT ![t] = Touch(model_call_counts, call[t].key, 0)[call[t].key]]
    /\ Goto(t, "store_count")
    /\ UNCHANGED <<window_size, endpoint_latencies, model_inference_times,
                   request_counts, error_counts>>
    /\ UNCHANGED <<clocks, sampler, ret, call, ref>>
    /\ UNCHANGED wrappers
    /\ UNCHANGED locals

\* self.model_call_counts[model_name] += 1, the store
mi_store_count(t) ==
    /\ pc[t] = "store_count" /\ call[t].op = "record_model_inference"
    /\ model_call_counts' = Store(model_call_counts, call[t].key, tmp[t] + 1)
    /\ Goto(t, "done")
    /\ UNCHANGED <<window_size, endpoint_latencies, model_inference_times,
                   request_counts, error_counts>>
    /\ UNCHANGED <<clocks, sampler, ret, call, tmp, ref>>
    /\ UNCHANGED wrappers
    /\ UNCHANGED locals

NextConc ==
    \E t \in Threads :
        \/ \E c \in ConcCalls : Start(t, c)
        \/ rr_lookup(t)
        \/ rr_missing(t)
        \/ rr_append(t)
        \/ rr_load_count(t)
        \/ rr_store_count(t)
        \/ rr_load_error(t)
        \/ rr_store_error(t)
        \/ mi_lookup(t)
        \/ mi_missing(t)
        \/ mi_append(t)
        \/ mi_load_count(t)
        \/ mi_store_count(t)

SpecConc == Init /\ [][NextConc]_vars

\* ------------------------------------------- a reset among the recorders
\* reset_metrics run by a caller thread next to the record calls: its five
\* clear() calls and the assignment of last_reset are separate steps.
\* Clearing a table of windows leaves every thread that had looked a deque
\* up in it with a deque the table no longer holds.
ResetCall == [op |-> "reset_metrics", key |-> "", sample |-> 0, status_code |-> 0]

Dropped(op) ==
    [u \in Threads |->
        IF call[u].op = op /\ ref[u] = "current" THEN "orphan" ELSE ref[u]]

rs_start(t) ==
    /\ pc[t] = "idle"
    /\ call' = [call EXCEPT ![t] = ResetCall]
    /\ Goto(t, "clear_latencies")
    /\ UNCHANGED <<collector, clocks, sampler, ret, tmp, ref>>
    /\ UNCHANGED wrappers
    /\ UNCHANGED locals

\* self.endpoint_latencies.clear()
rs_clear_latencies(t) ==
    /\ pc[t] = "clear_latencies"
    /\ endpoint_latencies' = EmptyDict
    /\ ref' = Dropped("record_request")
    /\ Goto(t, "clear_models")
    /\ UNCHANGED <<window_size, model_inference_times, request_counts,
                   error_counts, model_call_counts>>
    /\ UNCHANGED <<clocks, sampler, ret, call, tmp>>
    /\ UNCHANGED wrappers
    /\ UNCHANGED locals

\* self.model_inference_times.clear()
rs_clear_models(t) ==
    /\ pc[t] = "clear_models"
    /\ model_inference_times' = EmptyDict
    /\ ref' = Dropped("record_model_inference")
    /\ Goto(t, "clear_requests")
    /\ UNCHANGED <<window_size, endpoint_latencies, request_counts,
                   error_counts, model_call_counts>>
    /\ UNCHANGED <<clocks, sampler, ret, call, tmp>>
    /\ UNCHANGED wrappers
    /\ UNCHANGED locals

\* self.request_counts.clear()
rs_clear_requests(t) ==
    /\ pc[t] = "clear_requests"
    /\ request_counts' = EmptyDict
    /\ Goto(t, "clear_errors")
    /\ UNCHANGED <<window_size, endpoint_latencies, model_inference_times,
                   error_counts, model_call_counts>>
    /\ UNCHANGED <<clocks, sampler, ret, call, tmp, ref>>
    /\ UNCHANGED wrappers
    /\ UNCHANGED locals

\* self.error_counts.clear()
rs_clear_errors(t) ==
    /\ pc[t] = "clear_errors"
    /\ error_counts' = EmptyDict
    /\ Goto(t, "clear_model_calls")
    /\ UNCHANGED <<window_size, endpoint_latencies, model_inference_times,
                   request_counts, model_call_counts>>
    /\ UNCHANGED <<clocks, sampler, ret, call, tmp, ref>>
    /\ UNCHANGED wrappers
    /\ UNCHANGED locals

\* self.model_call_counts.clear()
rs_clear_model_calls(t) ==
    /\ pc[t] = "clear_model_calls"
    /\ model_call_counts' = EmptyDict
    /\ Goto(t, "set_last_reset")
    /\ UNCHANGED <<window_size, endpoint_latencies, model_inference_times,
                   request_counts, error_counts>>
    /\ UNCHANGED <<clocks, sampler, ret, call, tmp, ref>>
    /\ UNCHANGED wrappers
    /\ UNCHANGED locals

\* self.last_reset = datetime.now()
rs_set_last_reset(t) ==
    /\ pc[t] = "set_last_reset"
    /\ last_reset' = now
    /\ Goto(t, "done")
    /\ UNCHANGED <<collector, start_time, now, sampler, ret, call, tmp, ref>>
    /\ UNCHANGED wrappers
    /\ UNCHANGED locals

ResetSteps(t) ==
    \/ rs_start(t)
    \/ rs_clear_latencies(t)
    \/ rs_clear_models(t)
    \/ rs_clear_requests(t)
    \/ rs_clear_errors(t)
    \/ rs_clear_model_calls(t)
    \/ rs_set_last_reset(t)

NextConcReset ==
    \/ NextConc
    \/ \E t \in Threads : ResetSteps(t)

SpecConcReset == Init /\ [][NextConcReset]_vars

\* ---------------------------------------------- readers among the writers
\* get_summary and get_endpoint_stats run by a caller thread while other
\* threads record and reset.  Nothing is locked, so the reader is a sequence
\* of steps too:
\*   for endpoint in self.endpoint_latencies.keys()   the iterator is made,
\*       then advanced once per turn of the loop; it raises RuntimeError
\*       when the dict no longer has the size it had when the iterator was
\*       made, and stops when it has yielded that many keys
\*   get_endpoint_stats(endpoint)   copies the window, then reads
\*       request_counts[e], error_counts[e], request_counts[e] (the test),
\*       error_counts[e] and request_counts[e] (the division), one read a
\*       step
\*   sum(self.request_counts.values()), sum(self.error_counts.values())
\*       one step each
\* The dicts of the model keep no order: the key at the iterator's position
\* is any key not visited yet, or any key at all when every key has been
\* visited (the dict was cleared and refilled meanwhile).
ReadCalls ==
    {[op |-> "get_summary", key |-> "", sample |-> 0, status_code |-> 0]}
    \cup
    {[op |-> "get_endpoint_stats", key |-> e, sample |-> 0, status_code |-> 0] :
        e \in Endpoints}

\* the thread that reads; the other threads write
Reader == 1
Writers == Threads \ {Reader}

Local(t, field, value) == [locals EXCEPT ![t][field] = value]

rd_start(t, c) ==
    /\ pc[t] = "idle"
    /\ call' = [call EXCEPT ![t] = c]
    /\ locals' = [locals EXCEPT ![t] = [NoLocals EXCEPT !.endpoint = c.key]]
    /\ Goto(t, IF c.op = "get_summary" THEN "iter_endpoints" ELSE "window")
    /\ UNCHANGED <<collector, clocks, sampler, ret, tmp, ref>>
    /\ UNCHANGED wrappers

\* an exception leaves the call (and get_summary, when get_endpoint_stats
\* was called from its loop)
rd_raise(t, e) ==
    /\ ret' = Raised(call[t].op, call[t].key, e)
    /\ locals' = [locals EXCEPT ![t] = NoLocals]
    /\ Goto(t, "done")

\* get_endpoint_stats returns stats: to its caller, or into all_endpoints
\* of get_summary, whose loop goes on
ge_return(t, stats) ==
    IF call[t].op = "get_summary"
    THEN /\ locals' = [locals EXCEPT ![t] =
                [NoLocals EXCEPT
                    !.size = locals[t].size,
                    !.pos = locals[t].pos,
                    !.all_endpoints =
                        Store(locals[t].all_endpoints, locals[t].endpoint, stats)]]
         /\ Goto(t, "next_endpoint")
         /\ UNCHANGED ret
    ELSE /\ ret' = Returned("get_endpoint_stats", call[t].key, stats)
         /\ locals' = [locals EXCEPT ![t] = NoLocals]
         /\ Goto(t, "done")

\* the keys the iterator can be standing on
AtPosition(d, visited) ==
    IF DOMAIN d \ DOMAIN visited # {} THEN DOMAIN d \ DOMAIN visited
    ELSE DOMAIN d

\* iter(self.endpoint_latencies.keys())
gs_iter_endpoints(t) ==
    /\ pc[t] = "iter_endpoints"
    /\ locals' = [locals EXCEPT ![t].size = Cardinality(DOMAIN endpoint_latencies),
                                ![t].pos = 0]
    /\ Goto(t, "next_endpoint")
    /\ UNCHANGED <<collector, clocks, sampler, ret, call, tmp, ref>>
    /\ UNCHANGED wrappers

\* the iterator is advanced
gs_next_endpoint(t) ==
    /\ pc[t] = "next_endpoint"
    /\ IF Cardinality(DOMAIN endpoint_latencies) # locals[t].size
       THEN rd_raise(t, "RuntimeError")
       ELSE IF locals[t].pos >= locals[t].size
       THEN /\ Goto(t, "iter_models")
            /\ UNCHANGED <<ret, locals>>
       ELSE /\ \E k \in AtPosition(endpoint_latencies, locals[t].all_endpoints) :
                 locals' = [locals EXCEPT ![t].endpoint = k,
                                          ![t].pos = @ + 1]
            /\ Goto(t, "window")
            /\ UNCHANGED ret
    /\ UNCHANGED <<collector, clocks, sampler, call, tmp, ref>>
    /\ UNCHANGED wrappers

\* latencies = list(self.endpoint_latencies[endpoint]); if not latencies
ge_window(t) ==
    /\ pc[t] = "window"
    /\ endpoint_latencies' = Touch(endpoint_latencies, locals[t].endpoint, <<>>)
    /\ LET latencies ==
               Touch(endpoint_latencies, locals[t].endpoint, <<>>)[locals[t].endpoint]
       IN  IF latencies = <<>>
           THEN ge_return(t, EmptyEndpointStats(locals[t].endpoint))
           ELSE /\ locals' = Local(t, "latencies", latencies)
                /\ Goto(t, "read_total")
                /\ UNCHANGED ret
    /\ UNCHANGED <<window_size, model_inference_times, request_counts,
                   error_counts, model_call_counts>>
    /\ UNCHANGED <<clocks, sampler, call, tmp, ref>>
    /\ UNCHANGED wrappers

\* "total_requests": self.request_counts[endpoint]
ge_read_total(t) ==
    /\ pc[t] = "read_total"
    /\ request_counts' = Touch(request_counts, locals[t].endpoint, 0)
    /\ locals' = Local(t, "total",
                       Touch(request_counts, locals[t].endpoint, 0)[locals[t].endpoint])
    /\ Goto(t, "read_error_count")
    /\ UNCHANGED <<window_size, endpoint_latencies, model_inference_times,
                   error_counts, model_call_counts>>
    /\ UNCHANGED <<clocks, sampler, ret, call, tmp, ref>>
    /\ UNCHANGED wrappers

\* "error_count": self.error_counts[endpoint]
ge_read_error_count(t) ==
    /\ pc[t] = "read_error_count"
    /\ error_counts' = Touch(error_counts, locals[t].endpoint, 0)
    /\ locals' = Local(t, "error_count",
                       Touch(error_counts, locals[t].endpoint, 0)[locals[t].endpoint])
    /\ Goto(t, "test_requests")
    /\ UNCHANGED <<window_size, endpoint_latencies, model_inference_times,
                   request_counts, model_call_counts>>
    /\ UNCHANGED <<clocks, sampler, ret, call, tmp, ref>>
    /\ UNCHANGED wrappers

\* ... if self.request_counts[endpoint] > 0 else 0
ge_test_requests(t) ==
    /\ pc[t] = "test_requests"
    /\ request_counts' = Touch(request_counts, locals[t].endpoint, 0)
    /\ IF Touch(request_counts, locals[t].endpoint, 0)[locals[t].endpoint] > 0
       THEN /\ Goto(t, "read_errors")
            /\ UNCHANGED locals
       ELSE /\ locals' = Local(t, "error_rate", Zero)
            /\ Goto(t, "percentiles")
    /\ UNCHANGED <<window_size, endpoint_latencies, model_inference_times,
                   error_counts, model_call_counts>>
    /\ UNCHANGED <<clocks, sampler, ret, call, tmp, ref>>
    /\ UNCHANGED wrappers

\* self.error_counts[endpoint] / ..., the numerator
ge_read_errors(t) ==
    /\ pc[t] = "read_errors"
    /\ error_counts' = Touch(error_counts, locals[t].endpoint, 0)
    /\ locals' = Local(t, "errors",
                       Touch(error_counts, locals[t].endpoint, 0)[locals[t].endpoint])
    /\ Goto(t, "divide")
    /\ UNCHANGED <<window_size, endpoint_latencies, model_inference_times,
                   request_counts, model_call_counts>>
    /\ UNCHANGED <<clocks, sampler, ret, call, tmp, ref>>
    /\ UNCHANGED wrappers

\* ... / self.request_counts[endpoint], the denominator and the division
ge_divide(t) ==
    /\ pc[t] = "divide"
    /\ request_counts' = Touch(request_counts, locals[t].endpoint, 0)
    /\ LET requests ==
               Touch(request_counts, locals[t].endpoint, 0)[locals[t].endpoint]
       IN  IF requests = 0
           THEN rd_raise(t, "ZeroDivisionError")
           ELSE /\ locals' = Local(t, "error_rate", Div(locals[t].errors, requests))
                /\ Goto(t, "percentiles")
                /\ UNCHANGED ret
    /\ UNCHANGED <<window_size, endpoint_latencies, model_inference_times,
                   error_counts, model_call_counts>>
    /\ UNCHANGED <<clocks, sampler, call, tmp, ref>>
    /\ UNCHANGED wrappers

\* the percentiles and the average of the copied window; the dict is built
ge_percentiles(t) ==
    /\ pc[t] = "percentiles"
    /\ IF ~EndpointIndexesOk(locals[t].latencies)
       THEN rd_raise(t, "IndexError")
       ELSE ge_return(t,
                [EndpointStats(locals[t].endpoint, locals[t].latencies,
                               locals[t].total, locals[t].error_count)
                    EXCEPT !.error_rate = locals[t].error_rate])
    /\ UNCHANGED <<collector, clocks, sampler, call, tmp, ref>>
    /\ UNCHANGED wrappers

\* iter(self.model_inference_times.keys())
gs_iter_models(t) ==
    /\ pc[t] = "iter_models"
    /\ locals' = [locals EXCEPT ![t].size = Cardinality(DOMAIN model_inference_times),
                                ![t].pos = 0]
    /\ Goto(t, "next_model")
    /\ UNCHANGED <<collector, clocks, sampler, ret, call, tmp, ref>>
    /\ UNCHANGED wrappers

\* the iterator is advanced and get_model_stats(model_name) called
gs_next_model(t) ==
    /\ pc[t] = "next_model"
    /\ IF Cardinality(DOMAIN model_inference_times) # locals[t].size
       THEN /\ rd_raise(t, "RuntimeError")
            /\ UNCHANGED model_call_counts
       ELSE IF locals[t].pos >= locals[t].size
       THEN /\ Goto(t, "sum_requests")
            /\ UNCHANGED <<ret, locals, model_call_counts>>
       ELSE \E m \in AtPosition(model_inference_times, locals[t].all_models) :
                /\ model_call_counts' =
                     TouchAll(model_call_counts, ModelCountersRead(m), 0)
                /\ IF ModelStatsResult(m).raised # ""
                   THEN rd_raise(t, ModelStatsResult(m).raised)
                   ELSE /\ locals' = [locals EXCEPT
                               ![t].pos = @ + 1,
                               ![t].all_models =
                                   Store(@, m, ModelStatsResult(m).value)]
                        /\ Goto(t, "next_model")
                        /\ UNCHANGED ret
    /\ UNCHANGED <<window_size, endpoint_latencies, model_inference_times,
                   request_counts, error_counts>>
    /\ UNCHANGED <<clocks, sampler, call, tmp, ref>>
    /\ UNCHANGED wrappers

\* total_requests = sum(self.request_counts.values())
gs_sum_requests(t) ==
    /\ pc[t] = "sum_requests"
    /\ locals' = Local(t, "total_requests", SumValues(request_counts))
    /\ Goto(t, "sum_errors")
    /\ UNCHANGED <<collector, clocks, sampler, ret, call, tmp, ref>>
    /\ UNCHANGED wrappers

\* total_errors = sum(self.error_counts.values())
gs_sum_errors(t) ==
    /\ pc[t] = "sum_errors"
    /\ locals' = Local(t, "errors", SumValues(error_counts))
    /\ Goto(t, "return")
    /\ UNCHANGED <<collector, clocks, sampler, ret, call, tmp, ref>>
    /\ UNCHANGED wrappers

\* the report is built from the locals; get_system_metrics is called for
\* its "system" entry (on an idle host without accelerator)
gs_return(t) ==
    /\ pc[t] = "return"
    /\ LET uptime == now - start_time
           total_requests == locals[t].total_requests
           total_errors == locals[t].errors
       IN  ret' = Returned("get_summary", "",
               [uptime_seconds |-> uptime,
                uptime_formatted |-> format_uptime(uptime),
                total_requests |-> total_requests,
                total_errors |-> total_errors,
                overall_error_rate |->
                    IF total_requests > 0 THEN Div(total_errors, total_requests)
                    ELSE Zero,
                requests_per_second |->
                    IF uptime > 0 THEN Div(total_requests, uptime) ELSE Zero,
                endpoints |-> locals[t].all_endpoints,
                models |-> locals[t].all_models,
                system |-> SystemMetrics(IdleHost, "absent"),
                timestamp |-> now])
    /\ RefreshCache(IdleHost, "absent")
    /\ locals' = [locals EXCEPT ![t] = NoLocals]
    /\ Goto(t, "done")
    /\ UNCHANGED <<collector, clocks, call, tmp, ref>>
    /\ UNCHANGED wrappers

\* a thread whose record call has returned makes another call (a writer
\* records up to MaxRecords times, and a reset is the last call it makes)
next_call(t) ==
    /\ pc[t] = "done"
    /\ call[t].op \in {"record_request", "record_model_inference"}
    /\ TotalRecorded < MaxRecords
    /\ Goto(t, "idle")
    /\ call' = [call EXCEPT ![t] = NoCall]
    /\ tmp' = [tmp EXCEPT ![t] = 0]
    /\ ref' = [ref EXCEPT ![t] = "none"]
    /\ UNCHANGED <<collector, clocks, sampler, ret, locals>>
    /\ UNCHANGED wrappers

ReadSteps(t) ==
    \/ \E c \in ReadCalls : rd_start(t, c)
    \/ gs_iter_endpoints(t)
    \/ gs_next_endpoint(t)
    \/ ge_window(t)
    \/ ge_read_total(t)
    \/ ge_read_error_count(t)
    \/ ge_test_requests(t)
    \/ ge_read_errors(t)
    \/ ge_divide(t)
    \/ ge_percentiles(t)
    \/ gs_iter_models(t)
    \/ gs_next_model(t)
    \/ gs_sum_requests(t)
    \/ gs_sum_errors(t)
    \/ gs_return(t)

WriteSteps(t) ==
    \/ \E c \in ConcCalls : Start(t, c)
    \/ rr_lookup(t)
    \/ rr_missing(t)
    \/ rr_append(t)
    \/ rr_load_count(t)
    \/ rr_store_count(t)
    \/ rr_load_error(t)
    \/ rr_store_error(t)
    \/ mi_lookup(t)
    \/ mi_missing(t)
    \/ mi_append(t)
    \/ mi_load_count(t)
    \/ mi_store_count(t)
    \/ ResetSteps(t)
    \/ next_call(t)

NextConcRead ==
    \/ ReadSteps(Reader)
    \/ \E t \in Writers : WriteSteps(t)

SpecConcRead == Init /\ [][NextConcRead]_vars

\* ------------------------------------------------- concurrent refreshes
\* get_system_metrics called by several threads while the clock ticks.  The
\* call reads the clock, tests the cache's age, samples the host, stores the
\* sample and then stores the clock reading it started with: five steps.
\* The host's CPU reading is the moment it is read at, so that a sample
\* tells when it was taken.
HostAt(time) == [IdleHost EXCEPT !.cpu_percent = time]

SampleCall == [op |-> "get_system_metrics", key |-> "", sample |-> 0, status_code |-> 0]

gsm_start(t) ==
    /\ pc[t] = "idle"
    /\ call' = [call EXCEPT ![t] = SampleCall]
    /\ Goto(t, "time")
    /\ UNCHANGED <<collector, clocks, sampler, ret, tmp, ref, locals>>
    /\ UNCHANGED wrappers

\* current_time = time.time()
gsm_time(t) ==
    /\ pc[t] = "time"
    /\ locals' = Local(t, "current_time", now)
    /\ Goto(t, "test")
    /\ UNCHANGED <<collector, clocks, sampler, ret, call, tmp, ref>>
    /\ UNCHANGED wrappers

\* if current_time - self._last_system_check < 5: return the cache
gsm_test(t) ==
    /\ pc[t] = "test"
    /\ IF locals[t].current_time - last_system_check < RefreshInterval
       THEN /\ ret' = Returned("get_system_metrics", "", system_metrics_cache)
            /\ locals' = [locals EXCEPT ![t] = NoLocals]
            /\ Goto(t, "done")
       ELSE /\ Goto(t, "sample")
            /\ UNCHANGED <<ret, locals>>
    /\ UNCHANGED <<collector, clocks, sampler, call, tmp, ref>>
    /\ UNCHANGED wrappers

\* the psutil and torch reads; metrics = {...}
gsm_sample(t) ==
    /\ pc[t] = "sample"
    /\ locals' = Local(t, "metrics", FreshMetrics(HostAt(now), "absent"))
    /\ Goto(t, "store_cache")
    /\ UNCHANGED <<collector, clocks, sampler, ret, call, tmp, ref>>
    /\ UNCHANGED wrappers

\* self._system_metrics_cache = metrics
gsm_store_cache(t) ==
    /\ pc[t] = "store_cache"
    /\ system_metrics_cache' = locals[t].metrics
    /\ Goto(t, "store_check")
    /\ UNCHANGED <<collector, clocks, last_system_check, ret, call, tmp, ref,
                   locals>>
    /\ UNCHANGED wrappers

\* self._last_system_check = current_time; return metrics
gsm_store_check(t) ==
    /\ pc[t] = "store_check"
    /\ last_system_check' = locals[t].current_time
    /\ ret' = Returned("get_system_metrics", "", locals[t].metrics)
    /\ locals' = [locals EXCEPT ![t] = NoLocals]
    /\ Goto(t, "done")
    /\ UNCHANGED <<collector, clocks, system_metrics_cache, call, tmp, ref>>
    /\ UNCHANGED wrappers

NextConcSampler ==
    \/ TickSampler
    \/ \E t \in Threads :
        \/ gsm_start(t)
        \/ gsm_time(t)
        \/ gsm_test(t)
        \/ gsm_sample(t)
        \/ gsm_store_cache(t)
        \/ gsm_store_check(t)

SpecConcSampler == InitSampler /\ [][NextConcSampler]_vars

\* ---------------------------------------------------------------- wrappers
\* monitor_endpoint(name) and monitor_model_inference(name) around a
\* function, sync_wrapper or async_wrapper.  One invocation is a sequence
\* of steps, the wrapped function running between the first two:
\*   wrapper_enter          start_time, status_code = 200, func is called
\*   func_returns / _raises the try block ends; the except clause runs
\*   wrapper_get_collector  finally: metrics = get_metrics_collector()
\*   wrapper_record         finally: metrics.record_...(name, ms, status)
\*   wrapper_exit           the result is returned or the exception leaves
Wrappers == {"monitor_endpoint", "monitor_model_inference"}
Modes == {"sync", "async"}
WrapperNames(w) == IF w = "monitor_endpoint" THEN Endpoints ELSE ModelNames
\* values a wrapped function returns
FuncResults == {"test", "model_result"}
\* what a wrapped function raises: an ordinary error, an exit request, and
\* for a coroutine the cancellation of its task
FuncExceptions(mode) ==
    {"ValueError", "SystemExit"} \cup
    (IF mode = "async" THEN {"CancelledError"} ELSE {})
\* isinstance(e, Exception): SystemExit and asyncio.CancelledError derive
\* from BaseException only
IsException(e) == e = "ValueError"
\* seconds a wrapped function runs
Durations == {0, 1}
\* the thread the wrappers run in
Main == 1

\* MetricsCollector(): the state of a new instance
NewCollector ==
    /\ endpoint_latencies' = EmptyDict
    /\ model_inference_times' = EmptyDict
    /\ request_counts' = EmptyDict
    /\ error_counts' = EmptyDict
    /\ model_call_counts' = EmptyDict
    /\ start_time' = now
    /\ last_reset' = now
    /\ system_metrics_cache' = EmptyDict
    /\ last_system_check' = 0
    /\ UNCHANGED window_size

\* the counter the wrapper's record call increments
KeyCount(f) ==
    IF f.wrapper = "monitor_endpoint"
    THEN Touch(request_counts, f.name, 0)[f.name]
    ELSE Touch(model_call_counts, f.name, 0)[f.name]

wrapper_enter(w, mode, name) ==
    /\ frame.pc \in {"idle", "done"}
    /\ frame' = [NoFrame EXCEPT
                    !.pc = "func", !.wrapper = w, !.mode = mode,
                    !.name = name, !.start_time = now,
                    !.status_code = IF w = "monitor_endpoint" THEN 200 ELSE 0,
                    !.calls = 1,
                    !.before = KeyCount([wrapper |-> w, name |-> name]),
                    !.errors_before = Touch(error_counts, name, 0)[name]]
    /\ UNCHANGED <<collector, clocks, sampler, ret, callers>>
    /\ UNCHANGED <<metrics_collector, local_metrics>>

\* result = func(*args, **kwargs) / await func(*args, **kwargs); return
func_returns(v, d) ==
    /\ frame.pc = "func"
    /\ now' = now + d
    /\ frame' = [frame EXCEPT !.pc = "finally", !.outcome = "return",
                              !.result = v]
    /\ UNCHANGED <<collector, start_time, last_reset, sampler, ret, callers>>
    /\ UNCHANGED <<metrics_collector, local_metrics>>

\* an exception that leaves the wrapper without passing through finally
func_raises_skips_finally(e, d) ==
    /\ frame.pc = "func"
    /\ e \in FuncExceptions(frame.mode)
    /\ now' = now + d
    /\ frame' = [frame EXCEPT
                    !.pc = "exit", !.outcome = e,
                    !.status_code =
                        IF frame.wrapper = "monitor_endpoint" /\ IsException(e)
                        THEN 500 ELSE @]
    /\ UNCHANGED <<collector, start_time, last_reset, sampler, ret, callers>>
    /\ UNCHANGED <<metrics_collector, local_metrics>>

\* an except clause that leaves status_code as it was
func_raises_keeps_status(e, d) ==
    /\ frame.pc = "func"
    /\ e \in FuncExceptions(frame.mode)
    /\ now' = now + d
    /\ frame' = [frame EXCEPT !.pc = "finally", !.outcome = e]
    /\ UNCHANGED <<collector, start_time, last_reset, sampler, ret, callers>>
    /\ UNCHANGED <<metrics_collector, local_metrics>>

\* func raises e; monitor_endpoint's "except Exception" sets status_code
\* to 500 and re-raises, monitor_model_inference has no except clause
func_raises(e, d) ==
    /\ frame.pc = "func"
    /\ e \in FuncExceptions(frame.mode)
    /\ now' = now + d
    /\ frame' = [frame EXCEPT
                    !.pc = "finally", !.outcome = e,
                    !.status_code =
                        IF frame.wrapper = "monitor_endpoint" /\ IsException(e)
                        THEN 500 ELSE @]
    /\ UNCHANGED <<collector, start_time, last_reset, sampler, ret, callers>>
    /\ UNCHANGED <<metrics_collector, local_metrics>>

\* finally: metrics = get_metrics_collector(), run without interruption:
\* the first call builds the instance and binds the global to it
wrapper_get_collector ==
    /\ frame.pc = "finally"
    /\ IF metrics_collector = 0
       THEN /\ NewCollector
            /\ metrics_collector' = Main
       ELSE UNCHANGED <<collector, start_time, last_reset, sampler,
                        metrics_collector>>
    /\ local_metrics' = [local_metrics EXCEPT ![Main] = metrics_collector']
    /\ frame' = [frame EXCEPT !.pc = "record"]
    /\ UNCHANGED <<now, ret, callers>>

\* (time.time() - start_time) * 1000
latency_ms == (now - frame.start_time) * 1000

\* finally: metrics.record_request(endpoint_name, latency_ms, status_code)
\* or metrics.record_model_inference(model_name, inference_time_ms)
wrapper_record ==
    /\ frame.pc = "record"
    /\ IF frame.wrapper = "monitor_endpoint"
       THEN /\ endpoint_latencies' =
                 [Touch(endpoint_latencies, frame.name, <<>>)
                    EXCEPT ![frame.name] = Push(@, latency_ms)]
            /\ request_counts' = Increment(request_counts, frame.name)
            /\ error_counts' = IF IsError(frame.status_code)
                               THEN Increment(error_counts, frame.name)
                               ELSE error_counts
            /\ UNCHANGED <<model_inference_times, model_call_counts>>
       ELSE /\ model_inference_times' =
                 [Touch(model_inference_times, frame.name, <<>>)
                    EXCEPT ![frame.name] = Push(@, latency_ms)]
            /\ model_call_counts' = Increment(model_call_counts, frame.name)
            /\ UNCHANGED <<endpoint_latencies, request_counts, error_counts>>
    /\ frame' = [frame EXCEPT !.pc = "exit"]
    /\ UNCHANGED <<window_size, clocks, sampler, ret, callers>>
    /\ UNCHANGED <<metrics_collector, local_metrics>>

\* the record call raises (the interpreter runs out of memory while the
\* table grows): nothing catches it inside the finally block, so it takes
\* the place of the pending return or exception
wrapper_record_fault ==
    /\ frame.pc = "record"
    /\ frame' = [frame EXCEPT !.pc = "exit", !.fault = "MemoryError"]
    /\ UNCHANGED <<collector, clocks, sampler, ret, callers>>
    /\ UNCHANGED <<metrics_collector, local_metrics>>

\* a wrapper that turns the exception of the function into a None result
wrapper_exit_returns_none ==
    /\ frame.pc = "exit"
    /\ ret' = IF frame.outcome = "return"
              THEN Returned(frame.wrapper, frame.name, frame.result)
              ELSE Returned(frame.wrapper, frame.name, "None")
    /\ frame' = [frame EXCEPT !.pc = "done"]
    /\ UNCHANGED <<collector, clocks, sampler, callers>>
    /\ UNCHANGED <<metrics_collector, local_metrics>>

\* the wrapper is left: "return result" completes, or the exception in
\* flight (the function's, or the one raised inside finally) propagates
wrapper_exit ==
    /\ frame.pc = "exit"
    /\ ret' = IF frame.fault # ""
              THEN Raised(frame.wrapper, frame.name, frame.fault)
              ELSE IF frame.outcome = "return"
              THEN Returned(frame.wrapper, frame.name, frame.result)
              ELSE Raised(frame.wrapper, frame.name, frame.outcome)
    /\ frame' = [frame EXCEPT !.pc = "done"]
    /\ UNCHANGED <<collector, clocks, sampler, callers>>
    /\ UNCHANGED <<metrics_collector, local_metrics>>

\* the wrapped function may run for d more seconds
MayRun(d) == now + d - Epoch <= MaxUptime

\* wrapped functions called one after the other, the collector recording
\* without fault
NextWrap ==
    \/ /\ MayRecord
       /\ \E w \in Wrappers, mode \in Modes :
             \E name \in WrapperNames(w) : wrapper_enter(w, mode, name)
    \/ \E v \in FuncResults, d \in Durations : MayRun(d) /\ func_returns(v, d)
    \/ \E e \in FuncExceptions("async"), d \in Durations :
           MayRun(d) /\ func_raises(e, d)
    \/ wrapper_get_collector
    \/ wrapper_record
    \/ wrapper_exit

SpecWrap == Init /\ [][NextWrap]_vars

\* the same, with a collector whose record call may raise
NextWrapFault ==
    \/ NextWrap
    \/ wrapper_record_fault

SpecWrapFault == Init /\ [][NextWrapFault]_vars

\* ------------------------------------------------------ the HTTP middleware
\* monitoring_middleware around the routes of main.py that use the
\* collector.  One request at a time; a request is a sequence of steps:
\*   middleware_enter        start_time, status_code = 200
\*   await call_next(request):
\*     call_next_unrouted    no route for the method and path: the router
\*                           answers 405 and no handler runs
\*     handler_get_collector the handler's metrics = get_metrics_collector()
\*     get_metrics           GET /metrics: metrics.get_summary()
\*     post_metrics_reset    POST /metrics/reset: metrics.reset_metrics()
\*     handler_raises        the handler raises, or the request's task is
\*                           cancelled
\*   middleware_get_collector, middleware_record   the finally block
\*   middleware_exit         the response is returned or the exception
\*                           propagates
\* In the frame, before and errors_before are the counters of the request's
\* key when call_next finished, held the number of requests the collector
\* held when the middleware was entered.
Methods == {"GET", "POST"}
Paths == {"/metrics", "/metrics/reset"}

\* f"{request.method} {request.url.path}"
RequestKey(method, path) ==
    CASE method = "GET" /\ path = "/metrics" -> "GET /metrics"
      [] method = "GET" /\ path = "/metrics/reset" -> "GET /metrics/reset"
      [] method = "POST" /\ path = "/metrics" -> "POST /metrics"
      [] method = "POST" /\ path = "/metrics/reset" -> "POST /metrics/reset"

\* @app.get("/metrics"), @app.post("/metrics/reset")
Routed(method, path) ==
    \/ method = "GET" /\ path = "/metrics"
    \/ method = "POST" /\ path = "/metrics/reset"

MethodNotAllowed == 405

\* what call_next raises: an error of the handler, or the cancellation of
\* the request's task
HandlerExceptions == {"ValueError", "CancelledError"}

\* the counters of the request's key, noted when call_next has finished
Noted(f, requests, errors) ==
    LET key == RequestKey(f.method, f.path)
    IN  [f EXCEPT !.before = IF key \in DOMAIN requests THEN requests[key] ELSE 0,
                  !.errors_before = IF key \in DOMAIN errors THEN errors[key] ELSE 0]

middleware_enter(method, path) ==
    /\ frame.pc \in {"idle", "done"}
    /\ frame' = [NoFrame EXCEPT
                    !.pc = "call_next", !.wrapper = "monitoring_middleware",
                    !.mode = "async", !.method = method, !.path = path,
                    !.start_time = now, !.status_code = 200,
                    !.held = SumValues(request_counts)]
    /\ UNCHANGED <<collector, clocks, sampler, ret, callers>>
    /\ UNCHANGED <<metrics_collector, local_metrics>>

\* a response whose status_code the middleware ignores
call_next_unrouted_ignored ==
    /\ frame.pc = "call_next"
    /\ ~Routed(frame.method, frame.path)
    /\ frame' = Noted([frame EXCEPT !.pc = "finally", !.outcome = "return",
                                    !.result = "response"],
                      request_counts, error_counts)
    /\ UNCHANGED <<collector, clocks, sampler, ret, callers>>
    /\ UNCHANGED <<metrics_collector, local_metrics>>

\* response = await call_next(request); status_code = response.status_code
call_next_unrouted ==
    /\ frame.pc = "call_next"
    /\ ~Routed(frame.method, frame.path)
    /\ frame' = Noted([frame EXCEPT !.pc = "finally", !.outcome = "return",
                                    !.result = "response",
                                    !.status_code = MethodNotAllowed],
                      request_counts, error_counts)
    /\ UNCHANGED <<collector, clocks, sampler, ret, callers>>
    /\ UNCHANGED <<metrics_collector, local_metrics>>

\* the handler's metrics = get_metrics_collector()
handler_get_collector ==
    /\ frame.pc = "call_next"
    /\ Routed(frame.method, frame.path)
    /\ IF metrics_collector = 0
       THEN /\ NewCollector
            /\ metrics_collector' = Main
       ELSE UNCHANGED <<collector, start_time, last_reset, sampler,
                        metrics_collector>>
    /\ local_metrics' = [local_metrics EXCEPT ![Main] = metrics_collector']
    /\ frame' = [frame EXCEPT !.pc = "handler", !.calls = 1]
    /\ UNCHANGED <<now, ret, callers>>

\* GET /metrics: return metrics.get_summary(); the response is 200
get_metrics(d) ==
    /\ frame.pc = "handler"
    /\ frame.method = "GET" /\ frame.path = "/metrics"
    /\ ~SummaryRaises
    /\ request_counts' =
         TouchAll(request_counts, NonEmptyKeys(endpoint_latencies), 0)
    /\ error_counts' =
         TouchAll(error_counts, NonEmptyKeys(endpoint_latencies), 0)
    /\ model_call_counts' =
         TouchAll(model_call_counts, NonEmptyKeys(model_inference_times), 0)
    /\ RefreshCache(IdleHost, "absent")
    /\ now' = now + d
    /\ frame' = Noted([frame EXCEPT !.pc = "finally", !.outcome = "return",
                                    !.result = "response",
                                    !.status_code = 200],
                      request_counts', error_counts')
    /\ UNCHANGED <<window_size, endpoint_latencies, model_inference_times>>
    /\ UNCHANGED <<start_time, last_reset, ret, callers>>
    /\ UNCHANGED <<metrics_collector, local_metrics>>

\* a reset handler that leaves the collector as it is
post_metrics_reset_noop(d) ==
    /\ frame.pc = "handler"
    /\ frame.method = "POST" /\ frame.path = "/metrics/reset"
    /\ now' = now + d
    /\ frame' = Noted([frame EXCEPT !.pc = "finally", !.outcome = "return",
                                    !.result = "response",
                                    !.status_code = 200],
                      request_counts, error_counts)
    /\ UNCHANGED <<collector, start_time, last_reset, sampler, ret, callers>>
    /\ UNCHANGED <<metrics_collector, local_metrics>>

\* POST /metrics/reset: metrics.reset_metrics(); the response is 200
post_metrics_reset(d) ==
    /\ frame.pc = "handler"
    /\ frame.method = "POST" /\ frame.path = "/metrics/reset"
    /\ endpoint_latencies' = EmptyDict
    /\ model_inference_times' = EmptyDict
    /\ request_counts' = EmptyDict
    /\ error_counts' = EmptyDict
    /\ model_call_counts' = EmptyDict
    /\ last_reset' = now
    /\ now' = now + d
    /\ frame' = Noted([frame EXCEPT !.pc = "finally", !.outcome = "return",
                                    !.result = "response",
                                    !.status_code = 200],
                      EmptyDict, EmptyDict)
    /\ UNCHANGED <<window_size, start_time, sampler, ret, callers>>
    /\ UNCHANGED <<metrics_collector, local_metrics>>

\* call_next raises e: "except Exception" sets status_code to 500 and
\* re-raises
handler_raises(e, d) ==
    /\ frame.pc = "handler"
    /\ now' = now + d
    /\ frame' = Noted([frame EXCEPT
                          !.pc = "finally", !.outcome = e,
                          !.status_code = IF IsException(e) THEN 500 ELSE @],
                      request_counts, error_counts)
    /\ UNCHANGED <<collector, start_time, last_reset, sampler, ret, callers>>
    /\ UNCHANGED <<metrics_collector, local_metrics>>

\* finally: endpoint = f"{request.method} {request.url.path}";
\* metrics = get_metrics_collector()
middleware_get_collector ==
    /\ frame.pc = "finally"
    /\ frame.wrapper = "monitoring_middleware"
    /\ IF metrics_collector = 0
       THEN /\ NewCollector
            /\ metrics_collector' = Main
       ELSE UNCHANGED <<collector, start_time, last_reset, sampler,
                        metrics_collector>>
    /\ local_metrics' = [local_metrics EXCEPT ![Main] = metrics_collector']
    /\ frame' = [frame EXCEPT !.pc = "record",
                              !.name = RequestKey(frame.method, frame.path)]
    /\ UNCHANGED <<now, ret, callers>>

\* finally: metrics.record_request(endpoint, latency_ms, status_code)
middleware_record ==
    /\ frame.pc = "record"
    /\ frame.wrapper = "monitoring_middleware"
    /\ endpoint_latencies' =
         [Touch(endpoint_latencies, frame.name, <<>>)
            EXCEPT ![frame.name] = Push(@, latency_ms)]
    /\ request_counts' = Increment(request_counts, frame.name)
    /\ error_counts' = IF IsError(frame.status_code)
                       THEN Increment(error_counts, frame.name)
                       ELSE error_counts
    /\ frame' = [frame EXCEPT !.pc = "exit"]
    /\ UNCHANGED <<window_size, model_inference_times, model_call_counts>>
    /\ UNCHANGED <<clocks, sampler, ret, callers>>
    /\ UNCHANGED <<metrics_collector, local_metrics>>

\* "return response" completes, or the exception of call_next propagates
middleware_exit ==
    /\ frame.pc = "exit"
    /\ frame.wrapper = "monitoring_middleware"
    /\ ret' = IF frame.outcome = "return"
              THEN Returned(frame.wrapper, frame.name, frame.result)
              ELSE Raised(frame.wrapper, frame.name, frame.outcome)
    /\ frame' = [frame EXCEPT !.pc = "done"]
    /\ UNCHANGED <<collector, clocks, sampler, callers>>
    /\ UNCHANGED <<metrics_collector, local_metrics>>

\* requests served one after the other
NextHttp ==
    \/ /\ MayRecord
       /\ \E method \in Methods, path \in Paths : middleware_enter(method, path)
    \/ call_next_unrouted
    \/ handler_get_collector
    \/ \E d \in Durations : MayRun(d) /\ get_metrics(d)
    \/ \E d \in Durations : MayRun(d) /\ post_metrics_reset(d)
    \/ \E e \in HandlerExceptions, d \in Durations :
           MayRun(d) /\ handler_raises(e, d)
    \/ middleware_get_collector
    \/ middleware_record
    \/ middleware_exit

SpecHttp == Init /\ [][NextHttp]_vars

\* ------------------------------------------------ the collector singleton
\* Threads that each run
\*     metrics = get_metrics_collector()
\*     metrics.record_request(...) or metrics.record_model_inference(...)
\* as the wrappers, the middleware and the /metrics handlers do.
\* get_metrics_collector has no lock, so a thread can be switched out
\* between its steps:
\*   gmc_test       if _metrics_collector is None
\*   gmc_construct  _metrics_collector = MetricsCollector()
\*   gmc_return     return _metrics_collector
\* An instance is named after the thread that built it.  The collector
\* variables describe the instance the global is bound to; a record made
\* through another instance does not reach them.
gmc_test(t, c) ==
    /\ pc[t] = "idle"
    /\ call' = [call EXCEPT ![t] = c]
    /\ Goto(t, IF metrics_collector = 0 THEN "gmc_construct" ELSE "gmc_return")
    /\ UNCHANGED <<collector, clocks, sampler, ret, tmp, ref>>
    /\ UNCHANGED wrappers
    /\ UNCHANGED locals

gmc_construct(t) ==
    /\ pc[t] = "gmc_construct"
    /\ NewCollector
    /\ metrics_collector' = t
    /\ Goto(t, "gmc_return")
    /\ UNCHANGED <<now, ret, call, tmp, ref, local_metrics, frame>>
    /\ UNCHANGED locals

gmc_return(t) ==
    /\ pc[t] = "gmc_return"
    /\ local_metrics' = [local_metrics EXCEPT ![t] = metrics_collector]
    /\ Goto(t, "gmc_record")
    /\ UNCHANGED <<collector, clocks, sampler, ret, call, tmp, ref>>
    /\ UNCHANGED <<metrics_collector, frame>>
    /\ UNCHANGED locals

\* metrics.record_request(key, sample, status_code) or
\* metrics.record_model_inference(key, sample), on the thread's instance
gmc_record(t) ==
    /\ pc[t] = "gmc_record"
    /\ IF local_metrics[t] # metrics_collector
       THEN UNCHANGED <<endpoint_latencies, request_counts, error_counts,
                        model_inference_times, model_call_counts>>
       ELSE IF call[t].op = "record_request"
       THEN /\ endpoint_latencies' =
                 [Touch(endpoint_latencies, call[t].key, <<>>)
                    EXCEPT ![call[t].key] = Push(@, call[t].sample)]
            /\ request_counts' = Increment(request_counts, call[t].key)
            /\ error_counts' = IF IsError(call[t].status_code)
                               THEN Increment(error_counts, call[t].key)
                               ELSE error_counts
            /\ UNCHANGED <<model_inference_times, model_call_counts>>
       ELSE /\ model_inference_times' =
                 [Touch(model_inference_times, call[t].key, <<>>)
                    EXCEPT ![call[t].key] = Push(@, call[t].sample)]
            /\ model_call_counts' = Increment(model_call_counts, call[t].key)
            /\ UNCHANGED <<endpoint_latencies, request_counts, error_counts>>
    /\ Goto(t, "done")
    /\ UNCHANGED <<window_size, clocks, sampler, ret, call, tmp, ref>>
    /\ UNCHANGED wrappers
    /\ UNCHANGED locals

NextSingleton ==
    \E t \in Threads :
        \/ \E c \in ConcCalls : gmc_test(t, c)
        \/ gmc_construct(t)
        \/ gmc_return(t)
        \/ gmc_record(t)

SpecSingleton == Init /\ [][NextSingleton]_vars

\* ================================================================== claims
\* the value of a counter, 0 for a key the table does not hold
Count(d, k) == IF k \in DOMAIN d THEN d[k] ELSE 0
\* the samples of a window, none for a key the table does not hold
Window(d, k) == IF k \in DOMAIN d THEN d[k] ELSE <<>>
Min(a, b) == IF a <= b THEN a ELSE b
Max(a, b) == IF a >= b THEN a ELSE b

AllDone == \A t \in Threads : pc[t] = "done"

\* C1: when every one of the NThreads concurrent callers has finished its
\* single record_request("A", t, 200), request_counts["A"] = NThreads:
\* no increment is lost, whatever the interleaving.
C1_NoLostIncrement ==
    (/\ AllDone
     /\ \A t \in Threads :
           /\ call[t].op = "record_request"
           /\ call[t].key = "A"
           /\ call[t].status_code = 200)
    => Count(request_counts, "A") = NThreads

\* C2: after any sequence of calls made one at a time, every endpoint has
\* error_counts[k] <= request_counts[k].
C2_ErrorsAtMostRequests ==
    \A k \in Endpoints : Count(error_counts, k) <= Count(request_counts, k)

\* an endpoint with two errors among three requests
C2_Witness ==
    \E k \in Endpoints :
        Count(error_counts, k) = 2 /\ Count(request_counts, k) = 3

\* C3: every endpoint window and every model window holds at most
\* window_size samples, in every reachable state.
C3_WindowBounded ==
    /\ \A k \in DOMAIN endpoint_latencies :
           Len(endpoint_latencies[k]) <= window_size
    /\ \A k \in DOMAIN model_inference_times :
           Len(model_inference_times[k]) <= window_size

\* a full endpoint window that has received more samples than it holds,
\* next to a full model window
C3_Witness ==
    /\ \E k \in DOMAIN endpoint_latencies :
           /\ Len(endpoint_latencies[k]) = window_size
           /\ Count(request_counts, k) > window_size
    /\ \E k \in DOMAIN model_inference_times :
           Len(model_inference_times[k]) = window_size

\* the n most recent elements of s, in order
LastN(s, n) == IF Len(s) <= n THEN s ELSE SubSeq(s, Len(s) - n + 1, Len(s))

\* C4: recording a sample leaves the window holding the window_size most
\* recently recorded samples in insertion order (a full window evicts its
\* oldest sample), and a key that has received more than window_size samples
\* since the last reset holds exactly window_size of them.
C4_WindowKeepsMostRecent ==
    [][/\ \A e \in Endpoints, l \in Latencies, s \in StatusCodes :
            record_request(e, l, s) =>
                endpoint_latencies'[e] =
                    LastN(Window(endpoint_latencies, e) \o <<l>>, window_size)
       /\ \A m \in ModelNames, l \in Latencies :
            record_model_inference(m, l) =>
                model_inference_times'[m] =
                    LastN(Window(model_inference_times, m) \o <<l>>, window_size)
       /\ \A e \in Endpoints :
            Count(request_counts', e) > window_size =>
                Len(Window(endpoint_latencies', e)) = window_size
       /\ \A m \in ModelNames :
            Count(model_call_counts', m) > window_size =>
                Len(Window(model_inference_times', m)) = window_size]_vars

\* window_size + 1 samples went to one endpoint; the window holds the last
\* window_size, the newest differing from the one before it
C4_Witness ==
    \E e \in Endpoints :
        /\ Count(request_counts, e) = window_size + 1
        /\ Len(Window(endpoint_latencies, e)) = window_size
        /\ window_size > 1
        /\ endpoint_latencies[e][window_size] # endpoint_latencies[e][1]

\* C5: the counters do not depend on eviction: a key's window holds
\* min(n, window_size) samples where n is its counter, each record call adds
\* one to the counter even when the window is full, and get_endpoint_stats /
\* get_model_stats report the counter as total_requests / total_calls.
C5_CountersIndependentOfEviction ==
    /\ [](/\ \A e \in Endpoints :
              Len(Window(endpoint_latencies, e)) =
                  Min(Count(request_counts, e), window_size)
          /\ \A m \in ModelNames :
              Len(Window(model_inference_times, m)) =
                  Min(Count(model_call_counts, m), window_size)
          /\ ret.call = "get_endpoint_stats" =>
                /\ ret.raised = ""
                /\ ret.value.total_requests = Count(request_counts, ret.arg)
          /\ ret.call = "get_model_stats" =>
                /\ ret.raised = ""
                /\ ret.value.total_calls = Count(model_call_counts, ret.arg))
    /\ [][/\ \A e \in Endpoints, l \in Latencies, s \in StatusCodes :
                record_request(e, l, s) =>
                    Count(request_counts', e) = Count(request_counts, e) + 1
          /\ \A m \in ModelNames, l \in Latencies :
                record_model_inference(m, l) =>
                    Count(model_call_counts', m) =
                        Count(model_call_counts, m) + 1]_vars

\* get_endpoint_stats reports more requests than the window holds
C5_Witness ==
    /\ ret.call = "get_endpoint_stats"
    /\ ret.value.total_requests > window_size
    /\ Len(Window(endpoint_latencies, ret.arg)) = window_size

\* C6: one record_request(endpoint, latency_ms, status_code) appends
\* latency_ms to the endpoint's window, adds exactly 1 to
\* request_counts[endpoint], and adds 1 to error_counts[endpoint] if
\* status_code >= 400 and 0 otherwise.
C6_RecordRequestEffect ==
    [][\A e \in Endpoints, l \in Latencies, s \in StatusCodes :
          record_request(e, l, s) =>
            /\ Len(endpoint_latencies'[e]) =
                   Min(Len(Window(endpoint_latencies, e)) + 1, window_size)
            /\ endpoint_latencies'[e][Len(endpoint_latencies'[e])] = l
            /\ Count(request_counts', e) = Count(request_counts, e) + 1
            /\ Count(error_counts', e) =
                   Count(error_counts, e) + (IF s >= 400 THEN 1 ELSE 0)]_vars

\* an endpoint that has recorded one failed and one successful request
C6_Witness ==
    \E e \in Endpoints :
        /\ Count(request_counts, e) = 2
        /\ Count(error_counts, e) = 1
        /\ e \in DOMAIN endpoint_latencies
        /\ Len(endpoint_latencies[e]) = Min(2, window_size)

\* the element at 0-based rank i of w in ascending order
KthSmallest(w, i) ==
    CHOOSE v \in {w[j] : j \in 1..Len(w)} :
        /\ Cardinality({j \in 1..Len(w) : w[j] < v}) <= i
        /\ i < Cardinality({j \in 1..Len(w) : w[j] <= v})

\* nearest rank: index floor(p * count) clamped to [0, count - 1]
NearestRank(w, pct) ==
    KthSmallest(w, Min(Max((pct * Len(w)) \div 100, 0), Len(w) - 1))

\* C7: for a non-empty window, get_endpoint_stats reports P50 / P95 / P99
\* (and get_model_stats P95 / P99) as the element of the ascending window
\* at index floor(p * count) clamped to [0, count - 1]; the index computed
\* is inside the list for every window; three requests with latencies
\* [100, 200, 300] and status 200 give total_requests 3, error_count 0,
\* avg_latency 200, P50 200, P95 300, P99 300.
C7_NearestRankPercentiles ==
    /\ \A k \in DOMAIN endpoint_latencies, pct \in {50, 95, 99} :
          LET n == Len(endpoint_latencies[k])
          IN  n > 0 => PercentileIndex(n, pct) \in 0..(n - 1)
    /\ \A k \in DOMAIN model_inference_times, pct \in {95, 99} :
          LET n == Len(model_inference_times[k])
          IN  n > 0 => PercentileIndex(n, pct) \in 0..(n - 1)
    /\ (ret.call = "get_endpoint_stats"
           /\ Window(endpoint_latencies, ret.arg) # <<>>) =>
          /\ ret.raised = ""
          /\ ret.value.latency_p50 = NearestRank(endpoint_latencies[ret.arg], 50)
          /\ ret.value.latency_p95 = NearestRank(endpoint_latencies[ret.arg], 95)
          /\ ret.value.latency_p99 = NearestRank(endpoint_latencies[ret.arg], 99)
    /\ (ret.call = "get_model_stats"
           /\ Window(model_inference_times, ret.arg) # <<>>) =>
          /\ ret.raised = ""
          /\ ret.value.p95_inference_ms =
                 NearestRank(model_inference_times[ret.arg], 95)
          /\ ret.value.p99_inference_ms =
                 NearestRank(model_inference_times[ret.arg], 99)
    /\ (ret.call = "get_endpoint_stats"
           /\ Window(endpoint_latencies, ret.arg) = <<100, 200, 300>>
           /\ Count(request_counts, ret.arg) = 3
           /\ Count(error_counts, ret.arg) = 0) =>
          /\ ret.raised = ""
          /\ ret.value.total_requests = 3
          /\ ret.value.error_count = 0
          /\ ret.value.error_rate[1] = 0
          /\ ret.value.avg_latency[1] = 200 * ret.value.avg_latency[2]
          /\ ret.value.latency_p50 = 200
          /\ ret.value.latency_p95 = 300
          /\ ret.value.latency_p99 = 300

\* get_endpoint_stats has answered for the window [100, 200, 300]
C7_Witness ==
    /\ ret.call = "get_endpoint_stats"
    /\ Window(endpoint_latencies, ret.arg) = <<100, 200, 300>>
    /\ Count(request_counts, ret.arg) = 3
    /\ Count(error_counts, ret.arg) = 0

C9_UnobservedKeyZeroShape ==
    /\ (ret.call = "get_endpoint_stats"
           /\ Count(request_counts, ret.arg) = 0) =>
          /\ ret.raised = ""
          /\ ret.value = [endpoint |-> ret.arg, total_requests |-> 0,
                          error_count |-> 0, error_rate |-> <<0, 1>>,
                          latency_p50 |-> 0, latency_p95 |-> 0,
                          latency_p99 |-> 0, avg_latency |-> <<0, 1>>]
    /\ (ret.call = "get_model_stats"
           /\ Count(model_call_counts, ret.arg) = 0) =>
          /\ ret.raised = ""
          /\ ret.value = [model |-> ret.arg, total_calls |-> 0,
                          avg_inference_ms |-> <<0, 1>>,
                          p95_inference_ms |-> 0, p99_inference_ms |-> 0]

\* get_endpoint_stats has answered for a key without records while the
\* collector holds records of other keys
C9_Witness ==
    /\ ret.call = "get_endpoint_stats"
    /\ Count(request_counts, ret.arg) = 0
    /\ TotalRecorded > 0

\* C10: every key listed under endpoints (models) by get_summary has had at
\* least one record_request (record_model_inference) since the last reset.
C10_KeysOnlyByObservation ==
    (ret.call = "get_summary" /\ ret.raised = "") =>
        /\ \A k \in DOMAIN ret.value.endpoints :
              Count(request_counts, k) > 0
        /\ \A k \in DOMAIN ret.value.models :
              Count(model_call_counts, k) > 0

\* every window and every counter table is empty
Cleared ==
    /\ endpoint_latencies = EmptyDict
    /\ model_inference_times = EmptyDict
    /\ request_counts = EmptyDict
    /\ error_counts = EmptyDict
    /\ model_call_counts = EmptyDict

\* the totals and the two key maps of a summary are all zero / empty
ZeroTotals(s) ==
    /\ s.total_requests = 0
    /\ s.total_errors = 0
    /\ s.overall_error_rate = <<0, 1>>
    /\ DOMAIN s.endpoints = {}
    /\ DOMAIN s.models = {}

\* C11: in the state a reset_metrics step leaves, whatever the state
\* before it, get_summary does not raise and reports total_requests = 0,
\* total_errors = 0, overall_error_rate = 0 and empty endpoints and models
\* maps; and a get_summary step taken from such a state returns that.
C11_SummaryAfterReset ==
    [][/\ reset_metrics =>
            /\ Cleared'
            /\ ~SummaryRaises'
            /\ ZeroTotals(Summary(IdleHost, "absent"))'
       /\ (Cleared /\ get_summary(IdleHost, "absent")) =>
            /\ ret'.raised = ""
            /\ ZeroTotals(ret'.value)]_vars

\* a summary with zero totals, returned at the clock reading of a reset
\* made after construction
C11_Witness ==
    /\ ret.call = "get_summary"
    /\ ret.raised = ""
    /\ ZeroTotals(ret.value)
    /\ last_reset > start_time
    /\ ret.value.timestamp = last_reset

\* C12: start_time keeps the value given at construction through every
\* step; a reset_metrics step empties the windows and counters, sets
\* last_reset to the current time and leaves start_time alone; and every
\* summary reports uptime_seconds as the time elapsed since construction,
\* however many resets were made.
C12_StartTimeNeverChanges ==
    /\ [](/\ start_time = Epoch
          /\ (ret.call = "get_summary" /\ ret.raised = "") =>
                ret.value.uptime_seconds = ret.value.timestamp - Epoch)
    /\ [][/\ start_time' = start_time
          /\ reset_metrics =>
                /\ Cleared'
                /\ last_reset' = now
                /\ start_time' = start_time]_vars

\* a summary made after a reset that itself came after construction: its
\* uptime is longer than the time since that reset
C12_Witness ==
    /\ ret.call = "get_summary"
    /\ ret.raised = ""
    /\ last_reset > start_time
    /\ ret.value.timestamp > last_reset
    /\ ret.value.uptime_seconds > ret.value.timestamp - last_reset

RECURSIVE SumField(_, _)
\* the sum, over the entries of a map of statistics, of total_requests
\* (field = "requests") or of error_count (field = "errors")
SumField(m, field) ==
    IF DOMAIN m = {} THEN 0
    ELSE LET k == CHOOSE x \in DOMAIN m : TRUE
             v == IF field = "requests" THEN m[k].total_requests
                  ELSE m[k].error_count
         IN  v + SumField([x \in (DOMAIN m) \ {k} |-> m[x]], field)

\* C13: every summary returned to calls made one at a time has
\* total_requests equal to the sum of total_requests over the entries of
\* its endpoints map, total_errors equal to the sum of their error_count,
\* total_errors <= total_requests, overall_error_rate equal to
\* total_errors / total_requests (0 when total_requests = 0), and
\* requests_per_second 0 when uptime_seconds is 0.
C13_SummaryTotalsConsistent ==
    (ret.call = "get_summary" /\ ret.raised = "") =>
        LET s == ret.value
        IN  /\ s.total_requests = SumField(s.endpoints, "requests")
            /\ s.total_errors = SumField(s.endpoints, "errors")
            /\ s.total_errors <= s.total_requests
            /\ s.total_requests = 0 => s.overall_error_rate = <<0, 1>>
            /\ s.total_requests > 0 =>
                   /\ s.overall_error_rate[2] > 0
                   /\ s.overall_error_rate[1] * s.total_requests =
                          s.total_errors * s.overall_error_rate[2]
            /\ s.uptime_seconds = 0 => s.requests_per_second = <<0, 1>>

\* a summary taken at uptime 0 over two endpoints that together received
\* more requests than one window holds, failed requests among them
C13_Witness ==
    /\ ret.call = "get_summary"
    /\ ret.raised = ""
    /\ ret.value.uptime_seconds = 0
    /\ DOMAIN ret.value.endpoints = Endpoints
    /\ ret.value.total_requests > window_size
    /\ ret.value.total_errors > 0
    /\ ret.value.total_errors < ret.value.total_requests
    /\ \A k \in Endpoints : ret.value.endpoints[k].total_requests > 0

SummaryFields ==
    {"uptime_seconds", "uptime_formatted", "total_requests", "total_errors",
     "overall_error_rate", "requests_per_second", "endpoints", "models",
     "system", "timestamp"}
EndpointFields ==
    {"endpoint", "total_requests", "error_count", "error_rate",
     "latency_p50", "latency_p95", "latency_p99", "avg_latency"}
ModelFields ==
    {"model", "total_calls", "avg_inference_ms", "p95_inference_ms",
     "p99_inference_ms"}

\* C14: after any sequence of record_request, record_model_inference,
\* get_endpoint_stats, get_model_stats, get_system_metrics, get_summary
\* and reset_metrics calls, also the empty one, get_summary returns (it
\* does not raise) a report that has every field, with complete
\* statistics for each listed endpoint and model and a system snapshot.
C14_SummaryAlwaysWellFormed ==
    ret.call = "get_summary" =>
        /\ ret.raised = ""
        /\ DOMAIN ret.value = SummaryFields
        /\ \A k \in DOMAIN ret.value.endpoints :
               DOMAIN ret.value.endpoints[k] = EndpointFields
        /\ \A k \in DOMAIN ret.value.models :
               DOMAIN ret.value.models[k] = ModelFields
        /\ "cpu_percent" \in DOMAIN ret.value.system
        /\ ret.value.uptime_seconds >= 0

\* an all-zero summary that still lists a key: one whose window exists and
\* is empty
C14_Witness ==
    /\ ret.call = "get_summary"
    /\ ret.raised = ""
    /\ ret.value.total_requests = 0
    /\ ret.value.total_errors = 0
    /\ DOMAIN ret.value.endpoints # {}
    /\ DOMAIN ret.value.models # {}

\* C15: every invocation of a wrapped function, sync or async, under
\* monitor_endpoint (monitor_model_inference) leaves the wrapper with the
\* request (call) counter of its key exactly one above what it was on
\* entry, whether the function returned, raised, or was cancelled; and the
\* collector's counters change only in the wrapper's recording step, by
\* one, after the wrapped function has finished.
C15_ExactlyOneRecord ==
    [][/\ wrapper_exit => KeyCount(frame) = frame.before + 1
       /\ TotalRecorded' # TotalRecorded =>
            /\ wrapper_record
            /\ frame.outcome # ""
            /\ TotalRecorded' = TotalRecorded + 1
            /\ KeyCount(frame)' = KeyCount(frame) + 1]_vars

\* a cancelled coroutine has left its wrapper, with one record more under
\* a key that had records before
C15_Witness ==
    /\ frame.pc = "done"
    /\ frame.mode = "async"
    /\ frame.outcome = "CancelledError"
    /\ frame.before > 0
    /\ KeyCount(frame) = frame.before + 1

C17_WrappersTransparent ==
    frame.pc = "done" =>
        /\ frame.calls = 1
        /\ ret.call = frame.wrapper
        /\ ret.arg = frame.name
        /\ frame.outcome = "return" =>
               /\ ret.raised = ""
               /\ ret.value = frame.result
        /\ frame.outcome # "return" => ret.raised = frame.outcome

\* the caller of a model wrapper has received SystemExit from a function
\* that ran for a second
C17_Witness ==
    /\ frame.pc = "done"
    /\ frame.wrapper = "monitor_model_inference"
    /\ frame.outcome = "SystemExit"
    /\ ret.raised = "SystemExit"
    /\ now > frame.start_time

\* C18: when the record call made in a wrapper's finally block raises,
\* the caller of the wrapper still receives the wrapped function's value
\* or its exception, and not the exception of the record call.
C18_RecordingFaultSwallowed ==
    (frame.pc = "done" /\ frame.fault # "") =>
        /\ ret.raised # frame.fault
        /\ frame.outcome = "return" =>
               /\ ret.raised = ""
               /\ ret.value = frame.result
        /\ frame.outcome # "return" => ret.raised = frame.outcome

\* C19: when all NThreads callers have finished one record call each for
\* the same key, unseen before, and the window is large enough for all of
\* them, every caller has appended to the one window the table holds for
\* that key (none holds a replaced one) and the window has NThreads
\* samples.
C19_KeyCreationRaceSafe ==
    (/\ AllDone
     /\ window_size >= NThreads
     /\ \A t, u \in Threads :
           call[t].op = call[u].op /\ call[t].key = call[u].key) =>
        /\ \A t \in Threads : ref[t] = "current"
        /\ LET c == call[CHOOSE t \in Threads : TRUE]
           IN  IF c.op = "record_request"
               THEN Len(Window(endpoint_latencies, c.key)) = NThreads
               ELSE Len(Window(model_inference_times, c.key)) = NThreads

\* C20: any two threads to which get_metrics_collector has returned hold
\* the same instance, and once every thread has made its record call the
\* instance the global is bound to has counted all NThreads of them.
C20_OneCollectorPerProcess ==
    /\ \A t, u \in Threads :
           (local_metrics[t] # 0 /\ local_metrics[u] # 0) =>
               local_metrics[t] = local_metrics[u]
    /\ AllDone => TotalRecorded = NThreads

\* C21: a get_system_metrics call made less than 5 seconds after the last
\* fresh sample reads nothing from the host: it leaves the cache and its
\* timestamp alone and returns the cached values; a call made 5 seconds or
\* more after it returns what the host reads now and stores that and the
\* current time; the first call after construction is of the second kind.
C21_CacheGatedSampling ==
    /\ [](system_metrics_cache = EmptyDict => now - last_system_check >= 5)
    /\ [][\A os \in OSReadings, gpu \in GpuOutcomes :
            get_system_metrics(os, gpu) =>
                IF now - last_system_check < 5
                THEN /\ system_metrics_cache' = system_metrics_cache
                     /\ last_system_check' = last_system_check
                     /\ ret'.value = system_metrics_cache
                ELSE /\ ret'.value.cpu_percent = os.cpu_percent
                     /\ ret'.value.memory_percent = os.memory_percent
                     /\ ret'.value.gpu_available = (gpu # "absent")
                     /\ system_metrics_cache' = ret'.value
                     /\ last_system_check' = now]_vars

\* a call served, some time after it, from a sample that was itself taken
\* when an earlier sample could have expired
C21_Witness ==
    /\ ret.call = "get_system_metrics"
    /\ last_system_check >= Epoch + RefreshInterval
    /\ now > last_system_check
    /\ ret.value = system_metrics_cache

\* C23: every snapshot get_system_metrics returns, fresh or served from
\* the cache, with the accelerator absent, working or failing, has the
\* field gpu_available (so has the snapshot inside a summary), and a fresh
\* sample of a host without accelerator has it FALSE.
C23_GpuAvailableAlwaysPresent ==
    /\ [](/\ (ret.call = "get_system_metrics" /\ ret.raised = "") =>
                "gpu_available" \in DOMAIN ret.value
          /\ (ret.call = "get_summary" /\ ret.raised = "") =>
                "gpu_available" \in DOMAIN ret.value.system)
    /\ [][\A os \in OSReadings :
            (get_system_metrics(os, "absent")
                /\ now - last_system_check >= 5) =>
                    ret'.value.gpu_available = FALSE]_vars

\* a snapshot taken while the accelerator query failed, still the last
\* answer after the clock has moved on
C23_Witness ==
    /\ ret.call = "get_system_metrics"
    /\ "gpu_error" \in DOMAIN ret.value
    /\ ret.value.gpu_available = TRUE
    /\ now > last_system_check

\* C22: whatever read fails during a fresh sample (a psutil read or the
\* accelerator query), get_system_metrics returns a snapshot and
\* get_summary returns a report: neither raises.
C22_SamplingFailureNeverRaises ==
    ret.call \in {"get_system_metrics", "get_summary"} => ret.raised = ""

\* C24: in every state of an execution in which at most one record_request
\* is made, next to record_model_inference and reset_metrics calls of
\* other threads, error_counts[k] <= request_counts[k] for every endpoint
\* k, wherever the steps of the reset fall between those of the record.
C24_ErrorsAtMostRequestsUnderReset ==
    Cardinality({t \in Threads : call[t].op = "record_request"}) <= 1 =>
        \A k \in DOMAIN error_counts :
            error_counts[k] <= Count(request_counts, k)

\* C25: get_summary completes without error when it runs concurrently with
\* writers: a record_request that inserts a new key, or a reset_metrics,
\* interleaved with its iteration over the endpoints, does not make it raise.
C25_SummaryCompletesAmongWriters ==
    ret.call = "get_summary" => ret.raised = ""

\* C28: the error_rate returned by get_endpoint_stats and the
\* overall_error_rate returned by get_summary are within [0, 1] in every
\* execution, also when writers run between the read of the error counter
\* and the read of the request counter.
C28_ErrorRatesWithinUnitInterval ==
    /\ (ret.call = "get_endpoint_stats" /\ ret.raised = "") =>
           /\ LessEq(Zero, ret.value.error_rate)
           /\ LessEq(ret.value.error_rate, <<1, 1>>)
    /\ (ret.call = "get_summary" /\ ret.raised = "") =>
           /\ LessEq(Zero, ret.value.overall_error_rate)
           /\ LessEq(ret.value.overall_error_rate, <<1, 1>>)
           /\ \A k \in DOMAIN ret.value.endpoints :
                  LessEq(ret.value.endpoints[k].error_rate, <<1, 1>>)

\* C26: redundant concurrent refreshes are safe: whenever no refresh is
\* under way, _system_metrics_cache and _last_system_check belong to the
\* same sample, i.e. the timestamp is not newer than the moment the cached
\* snapshot was sampled.
C26_CacheAndTimestampOfOneSample ==
    (\A t \in Threads : pc[t] \in {"idle", "done"}) /\ system_metrics_cache # EmptyDict
        => last_system_check <= system_metrics_cache.cpu_percent

\* C27: an invocation of a function wrapped by monitor_endpoint is recorded
\* with status 200 only if the function returned normally; every other
\* exit (an exception, the cancellation of a coroutine, an exit request) is
\* recorded with a status code >= 400 and counted in error_counts.
C27_OnlyNormalReturnsRecordedAs200 ==
    [][(wrapper_exit /\ frame.wrapper = "monitor_endpoint") =>
          /\ frame.status_code = 200 => frame.outcome = "return"
          /\ frame.outcome # "return" =>
                /\ IsError(frame.status_code)
                /\ Count(error_counts, frame.name) = frame.errors_before + 1]_vars

\* the status the middleware has to record: the status of the response of
\* call_next, or 500 when call_next raised
ExpectedStatus(f) ==
    IF f.outcome = "return"
    THEN IF Routed(f.method, f.path) THEN 200 ELSE MethodNotAllowed
    ELSE 500

C30_ResetRequestIsRecorded ==
    (/\ frame.pc = "done"
     /\ frame.wrapper = "monitoring_middleware"
     /\ frame.method = "POST" /\ frame.path = "/metrics/reset"
     /\ frame.outcome = "return") =>
        /\ request_counts = [k \in {"POST /metrics/reset"} |-> 1]
        /\ error_counts = EmptyDict
        /\ DOMAIN endpoint_latencies = {"POST /metrics/reset"}
        /\ Len(endpoint_latencies["POST /metrics/reset"]) = 1
        /\ model_inference_times = EmptyDict
        /\ model_call_counts = EmptyDict
        /\ Summary(IdleHost, "absent").total_requests = 1

\* a reset request has completed on a collector that held two requests
\* when the request came in
C30_Witness ==
    /\ frame.pc = "done"
    /\ frame.wrapper = "monitoring_middleware"
    /\ frame.method = "POST" /\ frame.path = "/metrics/reset"
    /\ frame.outcome = "return"
    /\ frame.held = 2
    /\ SumValues(request_counts) = 1
====
